---- MODULE Spec2Model ----
(***************************************************************************)
(* A model of whisperlib's networking core: the Selector (reactor), its    *)
(* alarms and deferred callbacks, and the TcpConnection state machine.     *)
(* Every subsystem has its own specification; the variables of the other   *)
(* subsystems keep their initial value under it.                           *)
(***************************************************************************)
EXTENDS Integers, Sequences, FiniteSets, TLC

(***************************************************************************)
(* Bounds of the model.                                                    *)
(***************************************************************************)
\* Number of Selectable objects.
NumSel == 2
\* Events one backend wait returns at most.
MaxEvents == 2
\* Calls into the Selector a handler makes at most before it returns.
MaxHandlerOps == 1

\* selectable.h:49 / selector_event_data.h:30
kInvalidFdValue == -1

Sel == 1..NumSel
\* The file descriptor a Selectable owns while its socket is open.
FdOf(s) == s
\* The wake-up fd the backend holds with user data nullptr.
SignalFd == 0
Null == 0
\* No entry for a fd in the backend table.
Absent == -1
\* SelectDesire: kWantRead, kWantWrite, kWantError.
Desires == {"read", "write", "error"}
\* The order in which Selector::Loop calls the handlers of one event.
DispatchOrder == <<"error", "read", "write">>

VARIABLES
  \* ---- Selector: registry, backend, loop position ----
  registered_,   \* Selector::registered_
  selector_,     \* Selectable::selector_ of each Selectable: "null", "this", "other"
  fd_,           \* what GetFd() of each Selectable returns
  loop_,         \* the backend table: fd -> user data (Null for the wake-up fd), or Absent
  tid_,          \* Selector::tid_: 0, or 1 once Loop() has recorded its thread
  lpc,           \* position of the loop thread
  events,        \* events of the current backend wait not handled yet
  phase,         \* last sub-event handled of Head(events): 0 none, else its place in DispatchOrder
  hcall,         \* the handler the loop is inside of
  hops,          \* Selector calls the running handler has made
  unregd,        \* history: Unregister(s) has returned and s was not registered since
  \* ---- Selector: alarms ----
  alarm_id_,               \* Selector::alarm_id_
  alarms_,                 \* Selector::alarms_: the ids that have a callback
  alarm_timeouts_,         \* Selector::alarm_timeouts_: the heap array of <<deadline, id>>
  next_alarm_time_,        \* Selector::next_alarm_time_
  num_registered_alarms_,  \* Selector::num_registered_alarms_
  clock,                   \* absl::Now()
  apc,                     \* LoopAlarms: "idle", or "running" the collected callbacks
  alarm_to_run,            \* LoopAlarms' local to_run: callbacks collected, not called yet
  issued,                  \* history: the ids RegisterAlarm returned, in order
  deadline_of,             \* history: the deadline RegisterAlarm gave each id
  fired,                   \* history: ids in the order their callbacks were started
  cancelled,               \* history: ids for which UnregisterAlarm has returned
  \* ---- Selector: deferred callbacks and loop exit ----
  to_run_,        \* Selector::to_run_: the queue of posted callbacks
  have_to_run_,   \* Selector::have_to_run_
  should_end_,    \* Selector::should_end_
  tpc,            \* position of the thread that runs Loop()
  cb_to_run,      \* RunCallbacks' local to_run: the batch popped, not run yet
  cb_deadline,    \* RunCallbacks' local deadline
  num_run,        \* RunCallbacks' local num_run
  run_count,      \* LoopCallbacks' local run_count
  posted,         \* history: number of callbacks each thread has posted
  executed,       \* history: callbacks in the order they were run
  put_back,       \* history: callbacks PrependCallbacks has put back
  callbacks_timeout_per_event,  \* Params::callbacks_timeout_per_event
  exit_pending,   \* history: MakeLoopExit was called and Loop() has not returned since
  \* ---- TcpConnection ----
  conn,   \* the fields of one TcpConnection, its registration and its socket
  wev,    \* history: what the last HandleWriteEvent did
  \* ---- Timeouter ----
  timeouts_,   \* Timeouter::timeouts_: timeout id -> alarm id, or Absent
  owner,       \* history: the timeout id of each alarm that SetTimeout registered
  pending,     \* history: timeout ids set and neither fired nor cleared since
  invoked,     \* history: alarms whose ProcessTimeout has called callback_, in order
  tcleared,    \* history: alarms that a ClearTimeout has unregistered
  clear_ret,   \* history: the last ClearTimeout: its id, its result, and pending at the call
  \* ---- LockFreeProducerConsumerQueue ----
  q_size_,          \* the capacity, rounded up to a power of two
  num_producers_,
  num_consumers_,
  head_,            \* next ticket of a producer
  tail_,            \* next ticket of a consumer
  last_head_,       \* the published bound below which every Put has stored
  last_tail_,       \* the published bound below which every Get has read
  clients_,         \* clients_[i].head_ and clients_[i].tail_: the reservations
  data_,            \* the ring
  prod,             \* each producer thread: its position in Put and its locals
  cons,             \* each consumer thread: its position in Get and its locals
  put_seq,          \* history: the items passed to Put, in the order of the calls
  got_seq,          \* history: the items returned by Get, in the order of the returns
  stored,           \* history: the tickets whose Put has written its slot
  taken,            \* history: the tickets whose Get has read its slot
  \* ---- TcpAcceptor ----
  acc,    \* the fields of one TcpAcceptor, its registration and its socket
  \* ---- DnsResolver ----
  options_,         \* num_threads and queue_size
  threads_,         \* the worker threads: where each is in RunResolve, and its request
  resolves_,        \* the queue of each worker
  resolve_index_,
  dns,              \* the thread that owns the resolver: its position, its loop index
  accepted,         \* history: the requests that ResolveAsync has put on a queue
  answered,         \* history: the requests whose callback a worker has called
  \* ---- PollSelectorLoop ----
  fds_,                 \* the pollfd array: the fd and the events of each slot
  fds_size_,            \* how many slots of fds_ are in use
  fd_data_,             \* the map: fd -> (index in fds_, user data)
  indices_to_compact_   \* the slots Delete has given up

regvars == <<registered_, selector_, fd_, loop_, tid_, lpc, events, phase, hcall, hops, unregd>>
\* The registry without the thread id that Loop() records.
regNoTid == <<registered_, selector_, fd_, loop_, lpc, events, phase, hcall, hops, unregd>>

alarmvars == <<alarm_id_, alarms_, alarm_timeouts_, next_alarm_time_, num_registered_alarms_,
               clock, apc, alarm_to_run, issued, deadline_of, fired, cancelled>>

taskvars == <<to_run_, have_to_run_, should_end_, tpc, cb_to_run, cb_deadline, num_run,
              run_count, posted, executed, put_back, callbacks_timeout_per_event,
              exit_pending>>

connvars == <<conn, wev>>

timevars == <<timeouts_, owner, pending, invoked, tcleared, clear_ret>>

queuevars == <<q_size_, num_producers_, num_consumers_, head_, tail_, last_head_, last_tail_,
               clients_, data_, prod, cons, put_seq, got_seq, stored, taken>>

accvars == <<acc>>

dnsvars == <<options_, threads_, resolves_, resolve_index_, dns, accepted, answered>>

pollvars == <<fds_, fds_size_, fd_data_, indices_to_compact_>>

vars == <<regvars, alarmvars, taskvars, connvars, timevars, queuevars, accvars, dnsvars,
          pollvars>>

\* What the actions of one subsystem leave alone.
notReg == <<alarmvars, taskvars, connvars, timevars, queuevars, accvars, dnsvars, pollvars>>
notAlarm == <<regvars, taskvars, connvars, timevars, queuevars, accvars, dnsvars, pollvars>>
notTask == <<regvars, alarmvars, connvars, timevars, queuevars, accvars, dnsvars, pollvars>>
notConn == <<regvars, alarmvars, taskvars, timevars, queuevars, accvars, dnsvars, pollvars>>
\* The Timeouter works on its own fields and on the alarms of the Selector.
notTimeouter == <<regvars, taskvars, connvars, queuevars, accvars, dnsvars, pollvars>>
notQueue == <<regvars, alarmvars, taskvars, connvars, timevars, accvars, dnsvars, pollvars>>
notAcceptor == <<regvars, alarmvars, taskvars, connvars, timevars, queuevars, dnsvars, pollvars>>
notDns == <<regvars, alarmvars, taskvars, connvars, timevars, queuevars, accvars, pollvars>>
notPoll == <<regvars, alarmvars, taskvars, connvars, timevars, queuevars, accvars, dnsvars>>

NoCall == [s |-> Null, kind |-> "none", after_unregister |-> FALSE]

(***************************************************************************)
(* The backend (EpollSelectorLoop).                                        *)
(***************************************************************************)
\* EpollSelectorLoop::Add: RET_CHECK(fd >= 0), then epoll_ctl(EPOLL_CTL_ADD),
\* whose result kernel_ok stands for.
LoopAdd(tbl, fd, user_data, kernel_ok) ==
  IF fd >= 0 /\ kernel_ok /\ tbl[fd] = Absent
    THEN [tbl EXCEPT ![fd] = user_data]
    ELSE tbl

\* EpollSelectorLoop::Delete: RET_CHECK(fd >= 0), then epoll_ctl(EPOLL_CTL_DEL).
LoopDelete(tbl, fd) ==
  IF fd >= 0 /\ tbl[fd] # Absent
    THEN [tbl EXCEPT ![fd] = Absent]
    ELSE tbl

(***************************************************************************)
(* Selector::Register / Selector::Unregister.                              *)
(***************************************************************************)
\* Selector::IsInSelectThread for a caller: the loop thread is thread 1.
IsInSelectThread(caller) == caller = "loop" /\ tid_ = 1

\* RET_CHECK(tid_.load() == 0 || IsInSelectThread())
ThreadCheck(caller) == tid_ = 0 \/ IsInSelectThread(caller)

\* The registered set once Register has inserted s (selector.cc:150).
RegisterInsert(s) == registered_ \cup {s}

RegisterEffect(s, caller, kernel_ok) ==
  IF ~ThreadCheck(caller)
    THEN UNCHANGED <<registered_, selector_, loop_, unregd>>
  ELSE IF selector_[s] = "other"
    THEN UNCHANGED <<registered_, selector_, loop_, unregd>>
  ELSE IF s \in registered_
    THEN /\ selector_' = [selector_ EXCEPT ![s] = "this"]
         /\ UNCHANGED <<registered_, loop_, unregd>>
  ELSE /\ selector_' = [selector_ EXCEPT ![s] = "this"]
       /\ registered_' = RegisterInsert(s)
       /\ loop_' = LoopAdd(loop_, fd_[s], s, kernel_ok)
       /\ unregd' = [unregd EXCEPT ![s] = FALSE]

UnregisterEffect(s, caller) ==
  IF ~ThreadCheck(caller) \/ selector_[s] # "this"
    THEN UNCHANGED <<registered_, selector_, loop_, unregd>>
  ELSE /\ registered_' = registered_ \ {s}
       /\ selector_' = [selector_ EXCEPT ![s] = "null"]
       /\ loop_' = LoopDelete(loop_, fd_[s])
       /\ unregd' = [unregd EXCEPT ![s] = TRUE]

\* Which thread may be running application code now: the loop thread inside a
\* handler or between two waits, any other thread at any time.
CanCall(caller) ==
  \/ caller = "ext" /\ lpc # "in_handler"
  \/ caller = "loop" /\ lpc = "callbacks"
  \/ caller = "loop" /\ lpc = "in_handler" /\ hops < MaxHandlerOps

CountOp == hops' = IF lpc = "in_handler" THEN hops + 1 ELSE hops

Register(s, caller, kernel_ok) ==
  /\ CanCall(caller)
  /\ RegisterEffect(s, caller, kernel_ok)
  /\ CountOp
  /\ UNCHANGED <<fd_, tid_, lpc, events, phase, hcall>>

Unregister(s, caller) ==
  /\ CanCall(caller)
  /\ UnregisterEffect(s, caller)
  /\ CountOp
  /\ UNCHANGED <<fd_, tid_, lpc, events, phase, hcall>>

\* A Selectable opens its socket (::socket / ::accept) before it registers.
OpenFd(s, caller) ==
  /\ CanCall(caller)
  /\ fd_[s] = kInvalidFdValue
  /\ s \notin registered_
  /\ fd_' = [fd_ EXCEPT ![s] = FdOf(s)]
  /\ CountOp
  /\ UNCHANGED <<registered_, selector_, loop_, tid_, lpc, events, phase, hcall, unregd>>

\* A Selectable closes itself the way TcpConnection::InternalClose does:
\* Unregister, ::close (which drops the fd from the epoll set), fd_ = invalid.
CloseSelectable(s, caller) ==
  /\ CanCall(caller)
  /\ fd_[s] # kInvalidFdValue
  /\ ThreadCheck(caller)
  /\ selector_[s] = "this"
  /\ registered_' = registered_ \ {s}
  /\ selector_' = [selector_ EXCEPT ![s] = "null"]
  /\ loop_' = LoopDelete(loop_, fd_[s])
  /\ unregd' = [unregd EXCEPT ![s] = TRUE]
  /\ fd_' = [fd_ EXCEPT ![s] = kInvalidFdValue]
  /\ CountOp
  /\ UNCHANGED <<tid_, lpc, events, phase, hcall>>

(***************************************************************************)
(* Selector::Loop: wait, dispatch error -> read -> write.                  *)
(***************************************************************************)
LoopEnter ==
  /\ lpc = "stopped"
  /\ tid_' = 1
  /\ lpc' = "wait"
  /\ UNCHANGED <<registered_, selector_, fd_, loop_, events, phase, hcall, hops, unregd>>

\* One event of EpollSelectorLoop::LoopStep: the user data of a fd of the table
\* and the desires the kernel reported for it.
EventOf(fd, d) == [user_data |-> loop_[fd], desires |-> d]

PresentFds == {fd \in 0..NumSel : loop_[fd] # Absent}

\* The desires a wait can report for a fd: any for a socket, read for the wake-up fd.
DesiresOf(fd) == IF fd = SignalFd THEN {{"read"}} ELSE (SUBSET Desires) \ {{}}

RECURSIVE EventBatches(_)
EventBatches(n) ==
  IF n = 0 THEN {<<>>}
  ELSE LET prev == EventBatches(n - 1) IN
    prev \cup UNION {
      {Append(b, EventOf(fd, d)) : d \in DesiresOf(fd)} :
        <<b, fd>> \in {x \in prev \X PresentFds :
          /\ Len(x[1]) = n - 1
          /\ \A i \in 1..Len(x[1]) : x[1][i].user_data # loop_[x[2]]}}

LoopStep(batch) ==
  /\ lpc = "wait"
  /\ events' = batch
  /\ phase' = 0
  /\ lpc' = "dispatch"
  /\ UNCHANGED <<registered_, selector_, fd_, loop_, tid_, hcall, hops, unregd>>

\* selector.cc:312: the event is skipped when it is the wake-up signal or its
\* Selectable is not this selector's.
SkipEvent(e) == e.user_data = Null \/ selector_[e.user_data] # "this"

\* The sub-events of e that are still to come after `done`.
Pending(e, done) == {i \in 1..Len(DispatchOrder) : i > done /\ DispatchOrder[i] \in e.desires}

Min(S) == CHOOSE x \in S : \A y \in S : x <= y

Dispatch ==
  /\ lpc = "dispatch"
  /\ IF events = <<>>
       THEN /\ lpc' = "callbacks"
            /\ UNCHANGED <<events, phase, hcall, hops>>
     ELSE LET e == Head(events) IN
       IF (phase = 0 /\ SkipEvent(e)) \/ Pending(e, phase) = {}
         THEN /\ events' = Tail(events)
              /\ phase' = 0
              /\ UNCHANGED <<lpc, hcall, hops>>
         ELSE /\ lpc' = "in_handler"
              /\ phase' = Min(Pending(e, phase))
              /\ hcall' = [s |-> e.user_data, kind |-> DispatchOrder[Min(Pending(e, phase))],
                           after_unregister |-> unregd[e.user_data]]
              /\ hops' = 0
              /\ UNCHANGED events
  /\ UNCHANGED <<registered_, selector_, fd_, loop_, tid_, unregd>>

\* selector.cc:321-329: keep_processing = handler's result && GetFd() is valid;
\* nothing follows the write handler.
KeepProcessing(s, ret) == ret /\ fd_[s] # kInvalidFdValue

HandlerReturn(ret) ==
  /\ lpc = "in_handler"
  /\ lpc' = "dispatch"
  /\ IF hcall.kind = "write" \/ ~KeepProcessing(hcall.s, ret)
       THEN events' = Tail(events) /\ phase' = 0
       ELSE UNCHANGED <<events, phase>>
  /\ hcall' = NoCall
  /\ hops' = 0
  /\ UNCHANGED <<registered_, selector_, fd_, loop_, tid_, unregd>>

\* LoopCallbacks and LoopAlarms are done: back to the wait.
LoopNextStep ==
  /\ lpc = "callbacks"
  /\ lpc' = "wait"
  /\ UNCHANGED <<registered_, selector_, fd_, loop_, tid_, events, phase, hcall, hops, unregd>>

(***************************************************************************)
(* Selector alarms: RegisterAlarm, UnregisterAlarm, LoopAlarms.            *)
(***************************************************************************)
\* Alarms registered in one run of the model.
MaxAlarms == 3
\* The clock runs from 0 to MaxTime.
MaxTime == 2
\* RegisterAlarm's timeout is 0..MaxTimeout.
MaxTimeout == 2

\* absl::InfinitePast() and absl::InfiniteFuture() as nanoseconds.
kInfinitePast == -1
kInfiniteFuture == 1000

\* selector.cc:29 CompareAlarms(a, b): a.first > b.first
CompareAlarms(a, b) == a[1] > b[1]

\* std::__push_heap(first, holeIndex, topIndex, value, comp), indices from 0.
RECURSIVE PushHeapFrom(_, _, _, _)
PushHeapFrom(h, hole, top, value) ==
  LET parent == (hole - 1) \div 2 IN
  IF hole > top /\ CompareAlarms(h[parent + 1], value)
    THEN PushHeapFrom([h EXCEPT ![hole + 1] = h[parent + 1]], parent, top, value)
    ELSE [h EXCEPT ![hole + 1] = value]

\* alarm_timeouts_.push_back(entry); std::push_heap(begin, end, &CompareAlarms)
PushHeap(h, entry) == PushHeapFrom(Append(h, entry), Len(h), 0, entry)

\* The loop of std::__adjust_heap: the hole moves down to the smaller child.
RECURSIVE AdjustDown(_, _, _, _)
AdjustDown(h, hole, secondChild, len) ==
  IF secondChild < (len - 1) \div 2
    THEN LET c == 2 * (secondChild + 1)
             child == IF CompareAlarms(h[c + 1], h[c]) THEN c - 1 ELSE c
         IN AdjustDown([h EXCEPT ![hole + 1] = h[child + 1]], child, child, len)
    ELSE [heap |-> h, hole |-> hole, secondChild |-> secondChild]

\* std::__adjust_heap(first, 0, len, value)
AdjustHeap(h, len, value) ==
  LET d == AdjustDown(h, 0, 0, len)
      last == IF len % 2 = 0 /\ d.secondChild = (len - 2) \div 2
                THEN [heap |-> [d.heap EXCEPT ![d.hole + 1] = d.heap[2 * (d.secondChild + 1)]],
                      hole |-> 2 * (d.secondChild + 1) - 1]
                ELSE [heap |-> d.heap, hole |-> d.hole]
  IN PushHeapFrom(last.heap, last.hole, 0, value)

\* std::pop_heap(begin, end, &CompareAlarms); alarm_timeouts_.pop_back()
PopHeap(h) ==
  LET n == Len(h) IN
  IF n <= 1 THEN <<>>
  ELSE SubSeq(AdjustHeap([h EXCEPT ![n] = h[1]], n - 1, h[n]), 1, n - 1)

\* The entry LoopAlarms and RegisterAlarm read: alarm_timeouts_.back()
HeapBack(h) == h[Len(h)]

\* A counter one bit wide: the id after 1 is 0 again.
AlarmIdAfter_OneBit(counter) == (counter + 1) % 2

\* alarm_id_.fetch_add(1): the value of the counter after the call.
AlarmIdAfter(counter) == counter + 1

\* next_alarm_time_ as RegisterAlarm stores it (selector.cc:184).
NextAlarmTimeOnRegister(h) == HeapBack(h)[1]

RegisterAlarm(timeout) ==
  /\ alarm_id_ < MaxAlarms
  /\ LET alarm_id == alarm_id_
         deadline == clock + timeout
         heap == PushHeap(alarm_timeouts_, <<deadline, alarm_id>>)
     IN /\ alarm_id_' = AlarmIdAfter(alarm_id_)
        /\ alarms_' = alarms_ \cup {alarm_id}
        /\ alarm_timeouts_' = heap
        /\ next_alarm_time_' = NextAlarmTimeOnRegister(heap)
        /\ num_registered_alarms_' = Cardinality(alarms_ \cup {alarm_id})
        /\ issued' = Append(issued, alarm_id)
        /\ deadline_of' = (alarm_id :> deadline) @@ deadline_of
  /\ UNCHANGED <<clock, apc, alarm_to_run, fired, cancelled>>

\* alarms_ once UnregisterAlarm(alarm_id) has erased the id (selector.cc:192).
AlarmsErase(alarm_id) == alarms_ \ {alarm_id}

UnregisterAlarm(alarm_id) ==
  /\ alarm_id \in DOMAIN deadline_of
  /\ alarms_' = AlarmsErase(alarm_id)
  /\ num_registered_alarms_' = Cardinality(alarms_')
  /\ cancelled' = cancelled \cup {alarm_id}
  /\ UNCHANGED <<alarm_id_, alarm_timeouts_, next_alarm_time_, clock, apc, alarm_to_run,
                 issued, deadline_of, fired>>

\* The while loop of LoopAlarms (selector.cc:365-376) under alarm_mutex_.
RECURSIVE CollectAlarms(_, _, _, _)
CollectAlarms(h, alarms, to_run, end_alarms) ==
  IF h # <<>> /\ HeapBack(h)[1] <= end_alarms
    THEN LET alarm_id == HeapBack(h)[2] IN
         IF alarm_id \in alarms
           THEN CollectAlarms(PopHeap(h), alarms \ {alarm_id}, Append(to_run, alarm_id), end_alarms)
           ELSE CollectAlarms(PopHeap(h), alarms, to_run, end_alarms)
    ELSE [heap |-> h, alarms |-> alarms, to_run |-> to_run]

LoopAlarms ==
  /\ apc = "idle"
  /\ num_registered_alarms_ # 0
  /\ LET r == CollectAlarms(alarm_timeouts_, alarms_, <<>>, clock) IN
       /\ alarm_timeouts_' = r.heap
       /\ alarms_' = r.alarms
       /\ alarm_to_run' = r.to_run
       /\ num_registered_alarms_' = Cardinality(r.alarms)
       /\ next_alarm_time_' = IF r.heap = <<>> THEN kInfinitePast ELSE HeapBack(r.heap)[1]
       /\ apc' = "running"
  /\ UNCHANGED <<alarm_id_, clock, issued, deadline_of, fired, cancelled>>

\* for (auto callback : to_run) callback();  one callback per step
RunAlarmCallback ==
  /\ apc = "running"
  /\ alarm_to_run # <<>>
  /\ fired' = Append(fired, Head(alarm_to_run))
  /\ alarm_to_run' = Tail(alarm_to_run)
  /\ UNCHANGED <<alarm_id_, alarms_, alarm_timeouts_, next_alarm_time_, num_registered_alarms_,
                 clock, apc, issued, deadline_of, cancelled>>

\* return to_run.size();
LoopAlarmsReturn ==
  /\ apc = "running"
  /\ alarm_to_run = <<>>
  /\ apc' = "idle"
  /\ UNCHANGED <<alarm_id_, alarms_, alarm_timeouts_, next_alarm_time_, num_registered_alarms_,
                 clock, alarm_to_run, issued, deadline_of, fired, cancelled>>

Tick ==
  /\ clock < MaxTime
  /\ clock' = clock + 1
  /\ UNCHANGED <<alarm_id_, alarms_, alarm_timeouts_, next_alarm_time_, num_registered_alarms_,
                 apc, alarm_to_run, issued, deadline_of, fired, cancelled>>

AlarmInit ==
  /\ alarm_id_ = 0
  /\ alarms_ = {}
  /\ alarm_timeouts_ = <<>>
  /\ next_alarm_time_ = kInfiniteFuture
  /\ num_registered_alarms_ = 0
  /\ clock = 0
  /\ apc = "idle"
  /\ alarm_to_run = <<>>
  /\ issued = <<>>
  /\ deadline_of = <<>>
  /\ fired = <<>>
  /\ cancelled = {}

AlarmNext ==
  \/ \E t \in 0..MaxTimeout : RegisterAlarm(t) /\ UNCHANGED notAlarm
  \/ \E id \in 0..(MaxAlarms - 1) : UnregisterAlarm(id) /\ UNCHANGED notAlarm
  \/ LoopAlarms /\ UNCHANGED notAlarm
  \/ RunAlarmCallback /\ UNCHANGED notAlarm
  \/ LoopAlarmsReturn /\ UNCHANGED notAlarm
  \/ Tick /\ UNCHANGED notAlarm


(***************************************************************************)
(* Deferred callbacks: RunInSelectLoop, MakeLoopExit, LoopCallbacks,       *)
(* RunCallbacks, and the exit of Loop().                                   *)
(***************************************************************************)
\* Callbacks posted at most, by all threads together.
MaxPosts == 3
\* Params::max_num_callbacks_per_event (64 by default), scaled down.
MaxCallbacksPerEvent == 2

\* The thread that calls Loop(), and a thread outside of it.
Threads == {"loop", "ext"}
LoopThread == "loop"
\* absl::Time(): the epoch.
kEpoch == 0
\* Params::callbacks_timeout_per_event: one second by default; any Duration can be set.
Timeouts == {1, -1}

\* The callbacks posted so far.
NumPosted == posted["loop"] + posted["ext"]

\* selector.cc:124 IsInSelectThread(): pthread_t(tid_.load()) == pthread_self(),
\* where tid_ is 0 or the id of the thread that called Loop().
TaskInSelectThread(th) == th = LoopThread /\ tid_ = 1

\* The thread that runs Loop() executes code of the user only before Loop(), in
\* the event handlers, inside a callback, in the Close() calls of the exit, and
\* after Loop() has returned ("returned": with OK, "failed": with an error).
CanRun(th) ==
  \/ th # LoopThread
  \/ tpc \in {"stopped", "events", "closing", "returned", "failed"}
  \/ tpc = "run" /\ num_run > 0

\* RunCallbacks holds a batch that its deadline does not let it run.
BatchCut == tpc = "run" /\ cb_to_run # <<>> /\ ~(kEpoch < cb_deadline)

\* to_run_.emplace_back(callback); have_to_run_.store(true).  A callback is the
\* thread that posted it and its number among the posts of that thread (exit:
\* it is MakeLoopExit's; while_cut: it was posted while a cut batch was out).
Enqueue(th, exit) ==
  /\ NumPosted < MaxPosts
  /\ to_run_' = Append(to_run_, [th |-> th, n |-> posted[th] + 1, exit |-> exit,
                                 while_cut |-> BatchCut])
  /\ have_to_run_' = TRUE
  /\ posted' = [posted EXCEPT ![th] = @ + 1]

RunInSelectLoop(th) ==
  /\ CanRun(th)
  /\ Enqueue(th, FALSE)
  /\ UNCHANGED <<should_end_, tpc, cb_to_run, cb_deadline, num_run, run_count, executed,
                 put_back, callbacks_timeout_per_event,
                 exit_pending>>

MakeLoopExit(th) ==
  /\ CanRun(th)
  /\ IF ~TaskInSelectThread(th)
       THEN Enqueue(th, TRUE) /\ UNCHANGED should_end_
       ELSE should_end_' = TRUE /\ UNCHANGED <<to_run_, have_to_run_, posted>>
  /\ exit_pending' = TRUE
  /\ UNCHANGED <<tpc, cb_to_run, cb_deadline, num_run, run_count, executed, put_back,
                 callbacks_timeout_per_event>>

\* PopCallbacks: the callbacks moved out of the queue, at most max_num_to_run.
PopCount(queue, max_num_to_run) ==
  IF Len(queue) < max_num_to_run THEN Len(queue) ELSE max_num_to_run

\* A PopCallbacks that clears the flag whenever it has taken a batch.
HaveToRunAfterPop_Cleared(queue) == FALSE

\* PopCallbacks, under to_run_mutex_: have_to_run_.store(!to_run_.empty())
HaveToRunAfterPop(queue) == queue # <<>>

\* A PrependCallbacks that puts the front of the batch back first.
RECURSIVE PrependCallbacks_FrontFirst(_, _)
PrependCallbacks_FrontFirst(queue, batch) ==
  IF batch = <<>> THEN queue
  ELSE PrependCallbacks_FrontFirst(<<Head(batch)>> \o queue, Tail(batch))

\* PrependCallbacks: to_run_.emplace_front(to_run->back()); to_run->pop_back()
RECURSIVE PrependCallbacks(_, _)
PrependCallbacks(queue, batch) ==
  IF batch = <<>> THEN queue
  ELSE PrependCallbacks(<<batch[Len(batch)]>> \o queue, SubSeq(batch, 1, Len(batch) - 1))

\* Loop(): should_end_.store(false); tid_.store(pthread_self()).  Loop() can be
\* called again by the same thread after it has returned.
TaskLoopEnter ==
  /\ tpc \in {"stopped", "returned", "failed"}
  /\ should_end_' = FALSE
  /\ tid_' = 1
  /\ tpc' = "top"
  /\ UNCHANGED <<to_run_, have_to_run_, cb_to_run, cb_deadline, num_run, run_count, posted,
                 executed, put_back, callbacks_timeout_per_event,
                 exit_pending>>

\* while (!should_end_.load())
LoopTop ==
  /\ tpc = "top"
  /\ tpc' = IF should_end_ THEN "closing" ELSE "events"
  /\ UNCHANGED <<to_run_, have_to_run_, should_end_, cb_to_run, cb_deadline, num_run,
                 run_count, posted, executed, put_back, callbacks_timeout_per_event,
                 exit_pending>>

\* The backend wait and the event handlers are over: LoopCallbacks() begins.
LoopEvents ==
  /\ tpc = "events"
  /\ tpc' = "callbacks"
  /\ run_count' = 0
  /\ UNCHANGED <<to_run_, have_to_run_, should_end_, cb_to_run, cb_deadline, num_run,
                 posted, executed, put_back, callbacks_timeout_per_event,
                 exit_pending>>

\* ASSIGN_OR_RETURN(events, loop_->LoopStep(loop_timeout)): the backend wait
\* failed (epoll_wait or poll set an errno other than EINTR), Loop() returns it.
LoopStepFails ==
  /\ tpc = "events"
  /\ tpc' = "failed"
  /\ exit_pending' = FALSE
  /\ UNCHANGED <<to_run_, have_to_run_, should_end_, cb_to_run, cb_deadline, num_run,
                 run_count, posted, executed, put_back, callbacks_timeout_per_event>>

\* One test of LoopCallbacks' while; when it passes, RunCallbacks up to its loop.
LoopCallbacks ==
  /\ tpc = "callbacks"
  /\ IF have_to_run_ /\ run_count < MaxCallbacksPerEvent
       THEN LET k == PopCount(to_run_, MaxCallbacksPerEvent - run_count) IN
            /\ cb_to_run' = SubSeq(to_run_, 1, k)
            /\ to_run_' = SubSeq(to_run_, k + 1, Len(to_run_))
            /\ have_to_run_' = HaveToRunAfterPop(SubSeq(to_run_, k + 1, Len(to_run_)))
            /\ cb_deadline' = clock + callbacks_timeout_per_event
            /\ num_run' = 0
            /\ tpc' = "run"
       ELSE /\ tpc' = "top"
            /\ UNCHANGED <<to_run_, have_to_run_, cb_to_run, cb_deadline, num_run>>
  /\ UNCHANGED <<should_end_, run_count, posted, executed, put_back,
                 callbacks_timeout_per_event,
                 exit_pending>>

\* while (!to_run.empty() && absl::Time() < deadline) { to_run.front()(); ... }
RunCallback ==
  /\ tpc = "run"
  /\ cb_to_run # <<>> /\ kEpoch < cb_deadline
  /\ executed' = Append(executed, Head(cb_to_run))
  /\ should_end_' = (should_end_ \/ Head(cb_to_run).exit)
  /\ cb_to_run' = Tail(cb_to_run)
  /\ num_run' = num_run + 1
  /\ UNCHANGED <<to_run_, have_to_run_, tpc, cb_deadline, run_count, posted, put_back,
                 callbacks_timeout_per_event,
                 exit_pending>>

\* The end of RunCallbacks: PrependCallbacks(&to_run); LoopCallbacks adds n or returns.
RunCallbacksReturn ==
  /\ tpc = "run"
  /\ ~(cb_to_run # <<>> /\ kEpoch < cb_deadline)
  /\ to_run_' = PrependCallbacks(to_run_, cb_to_run)
  /\ have_to_run_' = (have_to_run_ \/ cb_to_run # <<>>)
  /\ put_back' = put_back \cup {cb_to_run[i] : i \in 1..Len(cb_to_run)}
  /\ cb_to_run' = <<>>
  /\ IF num_run = 0
       THEN tpc' = "top" /\ UNCHANGED run_count
       ELSE tpc' = "callbacks" /\ run_count' = run_count + num_run
  /\ UNCHANGED <<should_end_, cb_deadline, num_run, posted, executed,
                 callbacks_timeout_per_event,
                 exit_pending>>

\* CleanAndCloseAll() and call_on_close_ are over: return absl::OkStatus()
LoopReturn ==
  /\ tpc = "closing"
  /\ tpc' = "returned"
  /\ exit_pending' = FALSE
  /\ UNCHANGED <<to_run_, have_to_run_, should_end_, cb_to_run, cb_deadline, num_run,
                 run_count, posted, executed, put_back, callbacks_timeout_per_event>>

TaskIdle ==
  /\ to_run_ = <<>>
  /\ have_to_run_ = FALSE
  /\ should_end_ = FALSE
  /\ tpc = "stopped"
  /\ cb_to_run = <<>>
  /\ cb_deadline = 0
  /\ num_run = 0
  /\ run_count = 0
  /\ posted = [th \in Threads |-> 0]
  /\ executed = <<>>
  /\ put_back = {}
  /\ exit_pending = FALSE

\* selector.h: callbacks_timeout_per_event = absl::Seconds(1)
TaskInit == TaskIdle /\ callbacks_timeout_per_event = 1

\* The steps of the thread that calls Loop(): the call, and Loop()'s own code.
LoopThreadNext ==
  \/ TaskLoopEnter /\ UNCHANGED <<regNoTid, alarmvars, connvars, timevars, queuevars, accvars,
                                  dnsvars, pollvars>>
  \/ LoopTop /\ UNCHANGED notTask
  \/ LoopEvents /\ UNCHANGED notTask
  \/ LoopStepFails /\ UNCHANGED notTask
  \/ LoopCallbacks /\ UNCHANGED notTask
  \/ RunCallback /\ UNCHANGED notTask
  \/ RunCallbacksReturn /\ UNCHANGED notTask
  \/ LoopReturn /\ UNCHANGED notTask

TaskNext ==
  \/ \E th \in Threads : RunInSelectLoop(th) /\ UNCHANGED notTask
  \/ \E th \in Threads : MakeLoopExit(th) /\ UNCHANGED notTask
  \/ LoopThreadNext
  \/ Tick /\ UNCHANGED notAlarm

\* Params::default_loop_timeout: one second by default, in ticks of the clock.
default_loop_timeout == 2

\* The timeout Loop() hands to the backend wait (selector.cc:292-305), after
\* UpdateNow(): alarm_delta is the larger of next_alarm_time_ - now() and zero.
LoopTimeout ==
  IF have_to_run_ THEN 0
  ELSE LET delta == next_alarm_time_ - clock
           alarm_delta == IF delta < 0 THEN 0 ELSE delta
       IN IF alarm_delta < 0 THEN 0
          ELSE IF alarm_delta < default_loop_timeout THEN alarm_delta
          ELSE default_loop_timeout


(***************************************************************************)
(* TcpConnection.  All calls are made in the select thread.  conn holds:   *)
(*   state, fd, read_closed, write_closed, close_on_resolve, linger: the   *)
(*     fields state_, fd_, read_closed_, write_closed_, close_on_resolve_  *)
(*     and the kShutdownTimeoutId timeout of timeouter_;                   *)
(*   outbuf: the number of bytes in outbuf_;                               *)
(*   selector, desire: Selectable::selector_ and the read / write bits of  *)
(*     Selectable::desire_;                                                *)
(*   in_set, in_backend, mask: the connection is in Selector::registered_, *)
(*     its fd is in the backend, and the events the backend watches;       *)
(*   has_close_handler: Connection::close_handler_ is set;                 *)
(*   dns_pending: a ResolveAsync has not called back yet;                  *)
(*   shut_wr: shutdown(SHUT_WR) has been issued since the last Wrap;       *)
(*   close_rw: history, calls of close_handler_ with CLOSE_READ_WRITE      *)
(*     since the connection last left DISCONNECTED;                        *)
(*   rdhup_input: history, HandleErrorEvent has seen a remote hang up with *)
(*     input pending and left the connection to the read handler, and the  *)
(*     connection was not closed since;                                    *)
(*   crashed: a CHECK failed or a null Selector* was dereferenced.         *)
(***************************************************************************)
\* Bytes outbuf_ holds at most.
MaxOut == 2
\* The fd of the socket handed to Wrap.
ConnFd == FdOf(1)

Crash(c) == [c EXCEPT !.crashed = TRUE]

\* Selector::UpdateDesire(s, enable, desire) with s->selector() == this; k is
\* the result of the backend's Update (epoll_ctl MOD) on a fd it holds.
UpdateDesire(c, enable, d, k) ==
  IF (enable /\ d \in c.desire) \/ (~enable /\ d \notin c.desire)
    THEN [c |-> c, ok |-> TRUE]
    ELSE LET des == IF enable THEN c.desire \cup {d} ELSE c.desire \ {d}
             done == k /\ c.in_backend /\ c.fd # kInvalidFdValue
         IN [c |-> [c EXCEPT !.desire = des, !.mask = IF done THEN des ELSE @],
             ok |-> done]

\* CloseCommunication(CLOSE_WRITE) in the select thread.
CloseCommunication(c, k) ==
  IF c.fd = kInvalidFdValue
    THEN IF c.state = "DISCONNECTED" THEN c ELSE Crash(c)
  ELSE IF c.selector = "null" THEN Crash(c)
  ELSE IF ~c.write_closed /\ c.state = "CONNECTED"
    THEN UpdateDesire([c EXCEPT !.state = "FLUSHING"], TRUE, "write", k).c
  ELSE c

\* FlushAndClose(): selector()->IsInSelectThread() comes first.
FlushAndClose(c, k) ==
  IF c.selector = "null" THEN Crash(c) ELSE CloseCommunication(c, k)

\* Connection::CallCloseHandler: without a close handler it calls FlushAndClose().
CallCloseHandler(c, k) ==
  IF c.has_close_handler THEN c ELSE FlushAndClose(c, k)

InternalClose(c, call_close_handler, k) ==
  IF c.state = "DISCONNECTED" THEN (IF c.fd = kInvalidFdValue THEN c ELSE Crash(c))
  ELSE IF c.selector = "null" THEN Crash(c)
  ELSE IF c.state = "RESOLVING"
    THEN [c EXCEPT !.close_on_resolve = IF call_close_handler THEN "true" ELSE "false"]
  ELSE LET c1 == IF c.fd # kInvalidFdValue
                   THEN [c EXCEPT !.selector = "null", !.in_set = FALSE, !.in_backend = FALSE,
                                  !.mask = {}, !.fd = kInvalidFdValue]
                   ELSE c
           c2 == [c1 EXCEPT !.state = "DISCONNECTED", !.read_closed = TRUE,
                            !.write_closed = TRUE, !.linger = FALSE, !.outbuf = 0,
                            !.rdhup_input = FALSE]
           \* CallCloseHandler(status, CLOSE_READ_WRITE) reaches close_handler_
           c3 == IF c2.has_close_handler THEN [c2 EXCEPT !.close_rw = @ + 1] ELSE c2
       IN IF call_close_handler THEN CallCloseHandler(c3, k) ELSE c2

\* ForceClose() in the select thread.
ForceClose(c, k) ==
  IF c.selector = "null" THEN Crash(c) ELSE InternalClose(c, TRUE, k)

\* Connection::Write: append, then RequestWriteEvents(true), its error only logged.
Write(c, n, k) ==
  LET c1 == [c EXCEPT !.outbuf = @ + n] IN
  IF c.selector = "null" THEN Crash(c1) ELSE UpdateDesire(c1, TRUE, "write", k).c

\* Wrap(fd) up to the first failure: in.opts, in.add, in.local are the results of
\* SetSocketOptions, of the backend's Add and of getsockname; in.peername is the
\* result of getpeername and in.parse that of parsing the address buffer.
Wrap(c, in) ==
  IF c.selector = "null" THEN Crash(c)
  ELSE IF c.fd # kInvalidFdValue THEN c
  ELSE IF ~in.opts THEN c
  ELSE LET reg == IF c.in_set THEN c
                  ELSE [c EXCEPT !.in_set = TRUE, !.in_backend = in.add,
                                 !.mask = IF in.add THEN c.desire ELSE @]
           add_ok == c.in_set \/ in.add
           \* InitializeRemoteAddress fails when getpeername succeeds
           addr_ok == in.local /\ ~in.peername /\ in.parse
           upd == UpdateDesire(reg, TRUE, "read", in.k)
       IN IF ~add_ok \/ ~addr_ok THEN reg
          ELSE IF ~upd.ok THEN upd.c
          ELSE [upd.c EXCEPT !.fd = ConnFd, !.read_closed = FALSE, !.write_closed = FALSE,
                             !.state = "CONNECTED", !.shut_wr = FALSE, !.close_rw = 0]

\* A Connect that tests the fd ::socket returned: with a resolved address it
\* registers the socket and starts connecting.
Connect_FdTested(c, resolved, valid) ==
  IF c.selector = "null" THEN Crash(c)
  ELSE IF c.state \notin {"DISCONNECTED", "RESOLVING"} THEN c
  ELSE IF c.fd # kInvalidFdValue \/ ~valid THEN c
  ELSE IF c.state = "DISCONNECTED" /\ ~resolved
    THEN [c EXCEPT !.state = "RESOLVING", !.dns_pending = TRUE, !.close_rw = 0]
  ELSE [c EXCEPT !.state = "CONNECTING", !.fd = ConnFd, !.in_set = TRUE, !.in_backend = TRUE,
                 !.mask = c.desire, !.read_closed = FALSE, !.write_closed = FALSE]

\* The status Connect(remote_addr) returns when it does not crash: OK only when
\* it has started a DNS lookup (connection.cc:663); every other path ends at a
\* RET_CHECK, at an invalid address or at the test of fd_ after ::socket.
ConnectStatus(c, resolved, valid) ==
  IF c.state = "DISCONNECTED" /\ c.fd = kInvalidFdValue /\ valid /\ ~resolved
    THEN "ok" ELSE "error"

\* Connect(remote_addr): valid says that the address has a port and a host or ip.
\* With a resolved address the code tests fd_ < 0 after ::socket, and fd_ is
\* kInvalidFdValue there: it returns the error.
Connect(c, resolved, valid) ==
  IF c.selector = "null" THEN Crash(c)
  ELSE IF c.state \notin {"DISCONNECTED", "RESOLVING"} THEN c
  ELSE IF c.fd # kInvalidFdValue \/ ~valid THEN c
  ELSE IF c.state = "DISCONNECTED" /\ ~resolved
    THEN [c EXCEPT !.state = "RESOLVING", !.dns_pending = TRUE, !.close_rw = 0]
  ELSE c

\* if (!outbuf()->empty()) return true  (connection.cc:851), tested too early
KeepWriting_Never(c) == FALSE

\* if (!outbuf()->empty()) return true  (connection.cc:851)
KeepWriting(c) == c.outbuf # 0

\* The loop calls a handler of the connection for an event of kind d: the fd is in
\* the backend with d in its mask, and the back-pointer is the Selector.
Dispatched(c, d) == c.selector = "this" /\ c.in_backend /\ (d = "error" \/ d \in c.mask)

\* PerformConnectOnFirstOperation; the connect handler does nothing here.
PerformConnectOnFirstOperation(c) == [c EXCEPT !.state = "CONNECTED"]

\* What the write handler of the application does: nothing, return an error,
\* Write one more byte, FlushAndClose() or ForceClose().
WriteHandlerChoices == {"ok", "error", "write", "flush", "close"}

CallWriteHandler(c, h, k) ==
  CASE h = "ok" -> c
    [] h = "error" -> InternalClose(c, TRUE, k)
    [] h = "write" -> IF c.outbuf < MaxOut THEN Write(c, 1, k) ELSE c
    [] h = "flush" -> FlushAndClose(c, k)
    [] h = "close" -> ForceClose(c, k)

\* HandleWriteEvent from line 851 on; issued tells whether shutdown(SHUT_WR) was called.
FinishWrite(c, in) ==
  IF c.crashed \/ KeepWriting(c) THEN [c |-> c, disabled |-> FALSE, issued |-> FALSE]
  ELSE IF c.selector = "null" THEN [c |-> Crash(c), disabled |-> FALSE, issued |-> FALSE]
  ELSE LET upd == UpdateDesire(c, FALSE, "write", in.k) IN
       IF ~upd.ok
         THEN [c |-> InternalClose(upd.c, TRUE, in.k), disabled |-> FALSE, issued |-> FALSE]
       ELSE IF upd.c.state # "FLUSHING" THEN [c |-> upd.c, disabled |-> TRUE, issued |-> FALSE]
       ELSE LET s == [upd.c EXCEPT !.shut_wr = TRUE] IN
            [c |-> IF in.shutdown_ok /\ s.fd # kInvalidFdValue
                     THEN [s EXCEPT !.write_closed = TRUE, !.linger = TRUE]
                     ELSE InternalClose(s, TRUE, in.k),
             disabled |-> TRUE, issued |-> TRUE]

\* HandleWriteEvent: in.write_ok and in.cb are the result of WriteCord, in.h what
\* the write handler does, in.k the result of epoll_ctl, in.shutdown_ok that of
\* ::shutdown.  The result holds the connection and what the event did:
\*   flushing: the state was FLUSHING once the write and the write handler
\*     were over (when the write failed: before it);
\*   write_ok: WriteCord succeeded;  drained: outbuf was empty at line 851;
\*   disabled: RequestWriteEvents(false) succeeded;
\*   issued: shutdown(SHUT_WR) was called;  left: the bytes in outbuf at the end.
HandleWriteEvent(c, in) ==
  LET none == [flushing |-> FALSE, write_ok |-> FALSE, drained |-> FALSE,
               disabled |-> FALSE, issued |-> FALSE, left |-> c.outbuf] IN
  IF c.state = "CONNECTING" THEN [c |-> PerformConnectOnFirstOperation(c), ev |-> none]
  ELSE IF c.state \notin {"CONNECTED", "FLUSHING"} THEN [c |-> Crash(c), ev |-> none]
  ELSE IF ~in.write_ok \/ (c.fd = kInvalidFdValue /\ c.outbuf # 0)
    THEN LET closed == InternalClose(c, TRUE, in.k) IN
         [c |-> closed,
          ev |-> [none EXCEPT !.flushing = (c.state = "FLUSHING"), !.left = closed.outbuf]]
  ELSE LET c1 == [c EXCEPT !.outbuf = @ - in.cb]
           called == c1.state # "FLUSHING"
           c2 == IF called THEN CallWriteHandler(c1, in.h, in.k) ELSE c1
           failed == called /\ in.h = "error"
           f == IF failed THEN [c |-> c2, disabled |-> FALSE, issued |-> FALSE]
                ELSE FinishWrite(c2, in)
       IN [c |-> f.c,
           ev |-> [flushing |-> c2.state = "FLUSHING", write_ok |-> TRUE,
                   drained |-> c2.outbuf = 0, disabled |-> f.disabled, issued |-> f.issued,
                   left |-> f.c.outbuf]]

\* PerformRead: "data" bytes were read; "none" ioctl reports nothing to read, and
\* the code returns absl::OkStatus() as a StatusOr, which absl turns into an
\* error in a release build and into a fatal log in a debug build; "fail".
ReadResults == {"data", "none", "fail"}

HandleReadEvent(c, in) ==
  IF c.state = "CONNECTING" THEN PerformConnectOnFirstOperation(c)
  ELSE IF c.state \notin {"CONNECTED", "FLUSHING"} THEN Crash(c)
  ELSE IF in.res = "fail" \/ (in.res = "none" /\ ~in.debug) THEN InternalClose(c, TRUE, in.k)
  ELSE IF in.res = "none" THEN Crash(c)
  ELSE IF ~in.handler_ok THEN InternalClose(c, TRUE, in.k)
  ELSE LET c1 == IF c.write_closed \/ c.state = "FLUSHING" \/ in.eof
                   THEN [c EXCEPT !.read_closed = TRUE] ELSE c
       IN IF ~c1.read_closed THEN c1
          ELSE LET c2 == CallCloseHandler(c1, in.k) IN
               IF c2.crashed \/ c2.fd = kInvalidFdValue THEN c2
               ELSE LET upd == UpdateDesire(c2, FALSE, "read", in.k) IN
                    IF upd.ok THEN upd.c ELSE InternalClose(upd.c, TRUE, in.k)

\* HandleErrorEvent: kind is what the event reports (error, hang up, remote
\* hang up), input whether it reports input as well.
ErrorKinds == {"err", "hup", "rdhup"}

HandleErrorEvent(c, kind, input, k) ==
  IF c.state = "DISCONNECTED" THEN Crash(c)
  ELSE IF kind = "err" THEN InternalClose(c, TRUE, k)
  ELSE IF kind = "hup"
    THEN LET c1 == [c EXCEPT !.write_closed = TRUE] IN
         IF c1.state # "CONNECTING" /\ input THEN c1 ELSE InternalClose(c1, TRUE, k)
  ELSE LET c1 == [c EXCEPT !.state = "FLUSHING"] IN
       IF c1.state # "CONNECTING" /\ input
         THEN [c1 EXCEPT !.rdhup_input = TRUE]
         ELSE InternalClose(c1, TRUE, k)

\* HandleDnsResult in the select thread: info_ok is info.ok(), has_ip whether
\* PickNextAddress() returned an address.
HandleDnsResult(c, info_ok, has_ip, k) ==
  LET c1 == [c EXCEPT !.dns_pending = FALSE] IN
  IF c1.state # "RESOLVING" THEN Crash(c1)
  ELSE IF c1.close_on_resolve # "unset" THEN InternalClose(c1, c1.close_on_resolve = "true", k)
  ELSE IF info_ok /\ ~has_ip THEN Crash(c1)
  ELSE InternalClose(c1, TRUE, k)

(***************************************************************************)
(* The actions on the connection.                                          *)
(***************************************************************************)
NoWriteEvent == [flushing |-> FALSE, write_ok |-> FALSE, drained |-> FALSE,
                 disabled |-> FALSE, issued |-> FALSE, left |-> 0]

WrapInputs == [opts : BOOLEAN, add : BOOLEAN, local : BOOLEAN, peername : BOOLEAN,
               parse : BOOLEAN, k : BOOLEAN]

ConnWrap(in) ==
  /\ ~conn.crashed
  /\ conn' = Wrap(conn, in)
  /\ UNCHANGED wev

ConnConnect(resolved, valid) ==
  /\ ~conn.crashed
  /\ conn' = Connect(conn, resolved, valid)
  /\ UNCHANGED wev

ConnDnsResult(info_ok, has_ip, k) ==
  /\ ~conn.crashed
  /\ conn.dns_pending
  /\ conn' = HandleDnsResult(conn, info_ok, has_ip, k)
  /\ UNCHANGED wev

ConnWrite(n, k) ==
  /\ ~conn.crashed
  /\ conn.outbuf + n <= MaxOut
  /\ conn' = Write(conn, n, k)
  /\ UNCHANGED wev

ConnFlushAndClose(k) ==
  /\ ~conn.crashed
  /\ conn' = FlushAndClose(conn, k)
  /\ UNCHANGED wev

ConnForceClose(k) ==
  /\ ~conn.crashed
  /\ conn' = ForceClose(conn, k)
  /\ UNCHANGED wev

\* TcpConnection::Close(), the call of the Selectable interface.
ConnClose(k) ==
  /\ ~conn.crashed
  /\ conn' = InternalClose(conn, TRUE, k)
  /\ UNCHANGED wev

WriteInputs == [write_ok : BOOLEAN, cb : 0..MaxOut, h : WriteHandlerChoices, k : BOOLEAN,
                shutdown_ok : BOOLEAN]

ConnWriteEvent(in) ==
  /\ ~conn.crashed
  /\ Dispatched(conn, "write")
  /\ in.cb <= conn.outbuf
  /\ LET r == HandleWriteEvent(conn, in) IN
       /\ conn' = r.c
       /\ wev' = r.ev

ReadInputs == [res : ReadResults, debug : BOOLEAN, handler_ok : BOOLEAN, eof : BOOLEAN,
               k : BOOLEAN]

ConnReadEvent(in) ==
  /\ ~conn.crashed
  /\ Dispatched(conn, "read")
  /\ conn' = HandleReadEvent(conn, in)
  /\ UNCHANGED wev

ConnErrorEvent(kind, input, k) ==
  /\ ~conn.crashed
  /\ Dispatched(conn, "error")
  /\ conn' = HandleErrorEvent(conn, kind, input, k)
  /\ UNCHANGED wev

\* HandleTimeoutEvent: the linger timeout set after shutdown(SHUT_WR) fires.
ConnTimeoutEvent(k) ==
  /\ ~conn.crashed
  /\ conn.linger
  /\ conn' = InternalClose(conn, TRUE, k)
  /\ UNCHANGED wev

\* Selectable::Selectable(Selector* selector) is declared in selectable.h; it is
\* taken to store the selector in selector_.
SelectableSelector == "this"

\* The connection as its constructor leaves it (connection.h: state_, fd_,
\* write_closed_, read_closed_, close_on_resolve_; selectable.h: desire_).
NewConnection(has_close_handler) ==
  [state |-> "DISCONNECTED", fd |-> kInvalidFdValue, read_closed |-> FALSE,
   write_closed |-> FALSE, outbuf |-> 0, close_on_resolve |-> "unset",
   selector |-> SelectableSelector, desire |-> {"read"}, in_set |-> FALSE, in_backend |-> FALSE,
   mask |-> {}, linger |-> FALSE, has_close_handler |-> has_close_handler,
   dns_pending |-> FALSE, shut_wr |-> FALSE, crashed |-> FALSE, close_rw |-> 0,
   rdhup_input |-> FALSE]

ConnIdle ==
  /\ conn = NewConnection(TRUE)
  /\ wev = NoWriteEvent

ConnNext ==
  \/ \E in \in WrapInputs : ConnWrap(in) /\ UNCHANGED notConn
  \/ \E r, v \in BOOLEAN : ConnConnect(r, v) /\ UNCHANGED notConn
  \/ \E i, h, k \in BOOLEAN : ConnDnsResult(i, h, k) /\ UNCHANGED notConn
  \/ \E n \in 1..MaxOut, k \in BOOLEAN : ConnWrite(n, k) /\ UNCHANGED notConn
  \/ \E k \in BOOLEAN : ConnFlushAndClose(k) /\ UNCHANGED notConn
  \/ \E k \in BOOLEAN : ConnForceClose(k) /\ UNCHANGED notConn
  \/ \E k \in BOOLEAN : ConnClose(k) /\ UNCHANGED notConn
  \/ \E in \in WriteInputs : ConnWriteEvent(in) /\ UNCHANGED notConn
  \/ \E in \in ReadInputs : ConnReadEvent(in) /\ UNCHANGED notConn
  \/ \E kind \in ErrorKinds, input, k \in BOOLEAN : ConnErrorEvent(kind, input, k) /\ UNCHANGED notConn
  \/ \E k \in BOOLEAN : ConnTimeoutEvent(k) /\ UNCHANGED notConn

(***************************************************************************)
(* TcpAcceptor: one acceptor as a record.                                  *)
(*   sock: the socket that the last Listen created: "none", "open" or      *)
(*     "closed";  ret: what the last Listen returned: "ok", "error", or     *)
(*     "rejected" when a RET_CHECK on the acceptor or the address failed;  *)
(*   closes: the statuses that the close handler was called with;          *)
(*   handed: the connections given to the accept handler;                  *)
(*   ev: history, the last event that the loop delivered.                  *)
(***************************************************************************)
MaxAccepts == 2
NewAcceptor ==
  [state |-> "DISCONNECTED", fd |-> kInvalidFdValue, selector |-> SelectableSelector,
   in_set |-> FALSE, in_backend |-> FALSE, sock |-> "none", ret |-> "none",
   last_error |-> "ok", closes |-> <<>>, crashed |-> FALSE,
   hang_ups_handled |-> 0, errors_handled |-> 0, peer_parse_errors |-> 0,
   filtered_connections |-> 0, connections_accepted |-> 0, connection_wrap_errors |-> 0,
   connections_initialized |-> 0, handed |-> 0,
   ev |-> [err |-> FALSE, hup |-> FALSE, accept |-> "none", setup_ok |-> FALSE,
           wrapped |-> "none"]]

\* The acceptor that lines 380-410 of Listen leave behind when every call
\* succeeds, FdOf(2) being the listening socket.
ListeningAcceptor ==
  [NewAcceptor EXCEPT !.state = "LISTENING", !.fd = FdOf(2), !.in_set = TRUE,
                      !.in_backend = TRUE, !.sock = "open", !.ret = "ok"]

\* Listen(local_addr); in holds the results of ToSockAddr, ::socket,
\* SetSocketOptions, ::bind, ::listen, the backend's Add and InitializeLocalAddress.
AcceptorListen(a, in) ==
  LET error(x) == [x EXCEPT !.ret = "error"]
      \* close_fd: ::close(fd_.load()); fd_.store(kInvalidFdValue)
      close_fd(x) == error([x EXCEPT !.fd = kInvalidFdValue, !.sock = "closed"])
      fd == IF in.socket THEN FdOf(2) ELSE kInvalidFdValue
      created == [a EXCEPT !.sock = IF in.socket THEN "open" ELSE "none"]
      with_fd == [created EXCEPT !.fd = fd]
      reg == IF with_fd.in_set THEN with_fd
             ELSE [with_fd EXCEPT !.in_set = TRUE, !.in_backend = in.add]
  IN IF a.fd # kInvalidFdValue \/ a.state # "DISCONNECTED" \/ ~in.addr
       THEN [a EXCEPT !.ret = "rejected"]
     \* if (fd_ < 0), where fd_ still is kInvalidFdValue
     ELSE IF a.fd < 0 THEN error(created)
     ELSE IF ~in.opts \/ ~in.bind \/ ~in.listen THEN close_fd(with_fd)
     ELSE IF with_fd.selector = "null" THEN Crash(with_fd)
     ELSE IF ~(with_fd.in_set \/ in.add) \/ ~in.local THEN close_fd(reg)
     ELSE [reg EXCEPT !.state = "LISTENING", !.ret = "ok"]

\* TcpAcceptor::InternalClose(status), with a close handler set.
AcceptorInternalClose(a, status) ==
  IF a.selector = "null" THEN Crash(a)
  ELSE IF a.fd = kInvalidFdValue
    THEN IF a.state = "DISCONNECTED" THEN [a EXCEPT !.last_error = status] ELSE Crash(a)
  ELSE [a EXCEPT !.fd = kInvalidFdValue, !.last_error = status, !.selector = "null",
                 !.in_set = FALSE, !.in_backend = FALSE, !.sock = "closed",
                 !.state = "DISCONNECTED", !.closes = Append(@, status)]

\* TcpAcceptor::HandleErrorEvent: the hang up bits are looked at first.
AcceptorHandleErrorEvent(a, err, hup) ==
  IF hup THEN [a |-> [a EXCEPT !.hang_ups_handled = @ + 1], ret |-> TRUE]
  ELSE IF err
    THEN [a |-> AcceptorInternalClose([a EXCEPT !.errors_handled = @ + 1], "socket_error"),
          ret |-> FALSE]
  ELSE [a |-> a, ret |-> TRUE]

\* TcpAcceptor::HandleReadEvent, with InitializeAcceptedConnection on the same
\* Selector (no client threads); in.wrap holds what the system calls of Wrap return.
AcceptorHandleReadEvent(a, in) ==
  LET seen == [a EXCEPT !.ev.accept = in.accept]
      client == Wrap(NewConnection(TRUE), in.wrap)
      wrapping == [seen EXCEPT !.connections_accepted = @ + 1,
                               !.ev.setup_ok = in.wrap = [f \in DOMAIN in.wrap |-> TRUE]]
  IN IF in.accept = "again" THEN [a |-> seen, ret |-> TRUE]
     ELSE IF in.accept = "error" THEN [a |-> seen, ret |-> FALSE]
     ELSE IF ~in.parse THEN [a |-> [seen EXCEPT !.peer_parse_errors = @ + 1], ret |-> TRUE]
     ELSE IF ~in.filter THEN [a |-> [seen EXCEPT !.filtered_connections = @ + 1], ret |-> TRUE]
     ELSE IF client.state # "CONNECTED"
       THEN [a |-> [wrapping EXCEPT !.connection_wrap_errors = @ + 1, !.ev.wrapped = "failed"],
             ret |-> TRUE]
     ELSE [a |-> [wrapping EXCEPT !.connections_initialized = @ + 1, !.handed = @ + 1,
                                  !.ev.wrapped = "handed"],
           ret |-> TRUE]

\* The loop delivers one event of the listening socket: the error handler for the
\* error and hang up bits, then the read handler if the first one returned true
\* and the fd is still valid; a handler that returns false ends the event.
AcceptorEvent(err, hup, read, in) ==
  /\ ~acc.crashed
  /\ acc.selector = "this" /\ acc.in_backend
  /\ err \/ hup \/ read
  /\ acc.hang_ups_handled + acc.peer_parse_errors + acc.filtered_connections
       + acc.connections_accepted < MaxAccepts
  /\ LET a0 == [acc EXCEPT !.ev = [NewAcceptor.ev EXCEPT !.err = err, !.hup = hup]]
         e == IF err \/ hup THEN AcceptorHandleErrorEvent(a0, err, hup)
                            ELSE [a |-> a0, ret |-> TRUE]
     IN acc' = IF e.ret /\ e.a.fd # kInvalidFdValue /\ read
                 THEN AcceptorHandleReadEvent(e.a, in).a
                 ELSE e.a

\* Listen and Close in the select thread, and the events of the loop.
AcceptorNext ==
  \/ \E in \in [addr : BOOLEAN, socket : BOOLEAN, opts : BOOLEAN, bind : BOOLEAN,
                listen : BOOLEAN, add : BOOLEAN, local : BOOLEAN] :
       ~acc.crashed /\ acc' = AcceptorListen(acc, in) /\ UNCHANGED notAcceptor
  \/ ~acc.crashed /\ acc' = AcceptorInternalClose(acc, "ok") /\ UNCHANGED notAcceptor
  \/ \E err, hup, read \in BOOLEAN,
        in \in [accept : {"ok", "again", "error"}, parse : BOOLEAN, filter : BOOLEAN,
               wrap : WrapInputs] :
       AcceptorEvent(err, hup, read, in) /\ UNCHANGED notAcceptor

(***************************************************************************)
(* DnsResolver: worker threads, each with its own queue of requests        *)
(* (a ProducerConsumerQueue, whose methods run under its mutex).  A        *)
(* request is a number from 1 on; Null is the pair {"", nullptr} that the  *)
(* destructor puts.  dns holds the position of the thread that constructs, *)
(* uses and destroys the resolver.                                         *)
(***************************************************************************)
MaxDnsThreads == 2
MaxDnsQueue == 2
MaxRequests == 3

\* A queue that puts every datum at its front.
PutAt_Front(data, c, at_front) == <<c>> \o data

\* ProducerConsumerQueue::PutAt on a queue with empty space.
PutAt(data, c, at_front) == IF at_front THEN <<c>> \o data ELSE Append(data, c)

\* The resolver when its constructor starts its loop.
NewResolver(num_threads, queue_size) ==
  /\ options_ = [num_threads |-> num_threads, queue_size |-> queue_size]
  /\ threads_ = <<>>
  /\ resolves_ = <<>>
  /\ resolve_index_ = 0
  /\ dns = [pc |-> "thread", i |-> 0, issued |-> 0, crashed |-> FALSE]
  /\ accepted = {}
  /\ answered = {}

\* One round of the constructor's loop: the thread is started, then its queue is
\* created.
DnsResolverConstruct ==
  /\ ~dns.crashed
  /\ \/ /\ dns.pc = "thread"
        /\ threads_' = Append(threads_, [pc |-> "started", req |-> Null])
        /\ dns' = [dns EXCEPT !.pc = "queue"]
        /\ UNCHANGED resolves_
     \/ /\ dns.pc = "queue"
        /\ resolves_' = Append(resolves_, <<>>)
        /\ dns' = [dns EXCEPT !.i = IF dns.i + 1 < options_.num_threads THEN dns.i + 1 ELSE 0,
                              !.pc = IF dns.i + 1 < options_.num_threads THEN "thread"
                                                                         ELSE "alive"]
        /\ UNCHANGED threads_
  /\ UNCHANGED <<options_, resolve_index_, accepted, answered>>

\* RunResolve(index) of the thread threads_[index]; a thread that indexes
\* resolves_ before its queue is there reads what is no queue and ends the process.
RunResolve(index) ==
  LET me == threads_[index + 1] IN
  /\ ~dns.crashed
  /\ \/ /\ me.pc = "started"
        /\ IF index < Len(resolves_)
             THEN threads_' = [threads_ EXCEPT ![index + 1].pc = "get"] /\ UNCHANGED dns
             ELSE dns' = [dns EXCEPT !.crashed = TRUE] /\ UNCHANGED threads_
        /\ UNCHANGED <<resolves_, answered>>
     \/ \* Get() returns once the queue has data
        /\ me.pc = "get"
        /\ resolves_[index + 1] # <<>>
        /\ resolves_' = [resolves_ EXCEPT ![index + 1] = Tail(@)]
        /\ threads_' = [threads_ EXCEPT ![index + 1] =
                          IF Head(resolves_[index + 1]) = Null
                            THEN [pc |-> "exited", req |-> Null]
                            ELSE [pc |-> "resolve", req |-> Head(resolves_[index + 1])]]
        /\ UNCHANGED <<dns, answered>>
     \/ \* req.second(Resolve(req.first))
        /\ me.pc = "resolve"
        /\ answered' = answered \union {me.req}
        /\ threads_' = [threads_ EXCEPT ![index + 1] = [pc |-> "get", req |-> Null]]
        /\ UNCHANGED <<dns, resolves_>>
  /\ UNCHANGED <<options_, resolve_index_, accepted>>

\* ResolveAsync(hostname, callback): the request is put, or the queue stays full
\* for put_timeout and the callback gets the error.
ResolveAsync ==
  LET index == resolve_index_ % Len(resolves_)
      request == dns.issued + 1
  IN
  /\ ~dns.crashed /\ dns.pc = "alive" /\ dns.issued < MaxRequests
  /\ resolve_index_' = resolve_index_ + 1
  /\ dns' = [dns EXCEPT !.issued = request]
  /\ IF Len(resolves_[index + 1]) < options_.queue_size
       THEN /\ resolves_' = [resolves_ EXCEPT ![index + 1] = PutAt(@, request, FALSE)]
            /\ accepted' = accepted \union {request}
       ELSE UNCHANGED <<resolves_, accepted>>
  /\ UNCHANGED <<options_, threads_, answered>>

\* ~DnsResolver(): Put({"", nullptr}) on every queue, waiting for space, then
\* join of every thread.
DnsResolverDestroy ==
  /\ ~dns.crashed
  /\ \/ /\ dns.pc \in {"alive", "put"}
        /\ Len(resolves_[dns.i + 1]) < options_.queue_size
        /\ resolves_' = [resolves_ EXCEPT ![dns.i + 1] = PutAt(@, Null, FALSE)]
        /\ dns' = [dns EXCEPT !.i = IF dns.i + 1 < Len(resolves_) THEN dns.i + 1 ELSE 0,
                              !.pc = IF dns.i + 1 < Len(resolves_) THEN "put" ELSE "join"]
     \/ /\ dns.pc = "join"
        /\ threads_[dns.i + 1].pc = "exited"
        /\ dns' = [dns EXCEPT !.i = IF dns.i + 1 < Len(threads_) THEN dns.i + 1 ELSE 0,
                              !.pc = IF dns.i + 1 < Len(threads_) THEN "join" ELSE "returned"]
        /\ UNCHANGED resolves_
  /\ UNCHANGED <<options_, threads_, resolve_index_, accepted, answered>>

DnsNext ==
  \/ DnsResolverConstruct /\ UNCHANGED notDns
  \/ \E index \in 0..Len(threads_) - 1 : RunResolve(index) /\ UNCHANGED notDns
  \/ ResolveAsync /\ UNCHANGED notDns
  \/ DnsResolverDestroy /\ UNCHANGED notDns

(***************************************************************************)
(* Timeouter: named timeouts of one owner, kept as alarms of the Selector. *)
(* Its methods run under Timeouter::mutex_, from any thread.               *)
(***************************************************************************)
\* TcpConnection::kShutdownTimeoutId
kShutdownTimeoutId == -100
\* The timeout ids the owner uses: a TcpConnection sets the linger timeout only.
TimeoutIds == {kShutdownTimeoutId}

\* SetTimeout: UnregisterAlarm of the alarm mapped to the id, if any, then
\* RegisterAlarm of a callback that calls ProcessTimeout(timeout_id).
SetTimeout(timeout_id, timeout) ==
  /\ alarm_id_ < MaxAlarms
  /\ LET it == timeouts_[timeout_id]
         alarm_id == alarm_id_
         deadline == clock + timeout
         alarms == IF it # Absent THEN AlarmsErase(it) ELSE alarms_
         heap == PushHeap(alarm_timeouts_, <<deadline, alarm_id>>)
     IN /\ alarm_id_' = AlarmIdAfter(alarm_id_)
        /\ alarms_' = alarms \cup {alarm_id}
        /\ alarm_timeouts_' = heap
        /\ next_alarm_time_' = NextAlarmTimeOnRegister(heap)
        /\ num_registered_alarms_' = Cardinality(alarms \cup {alarm_id})
        /\ issued' = Append(issued, alarm_id)
        /\ deadline_of' = (alarm_id :> deadline) @@ deadline_of
        /\ cancelled' = IF it # Absent THEN cancelled \cup {it} ELSE cancelled
        /\ timeouts_' = [timeouts_ EXCEPT ![timeout_id] = alarm_id]
        /\ owner' = (alarm_id :> timeout_id) @@ owner
        /\ pending' = pending \cup {timeout_id}
  /\ UNCHANGED <<clock, apc, alarm_to_run, fired, invoked, tcleared, clear_ret>>

\* ClearTimeout: false when the id is not in timeouts_, else UnregisterAlarm and
\* true; the entry of the id stays in timeouts_.
ClearTimeout(timeout_id) ==
  /\ LET it == timeouts_[timeout_id] IN
       /\ clear_ret' = [id |-> timeout_id, ret |-> it # Absent,
                        was_pending |-> timeout_id \in pending]
       /\ IF it = Absent
            THEN UNCHANGED <<alarms_, num_registered_alarms_, cancelled, tcleared>>
            ELSE /\ alarms_' = AlarmsErase(it)
                 /\ num_registered_alarms_' = Cardinality(AlarmsErase(it))
                 /\ cancelled' = cancelled \cup {it}
                 /\ tcleared' = tcleared \cup {it}
  /\ pending' = pending \ {timeout_id}
  /\ UNCHANGED <<alarm_id_, alarm_timeouts_, next_alarm_time_, clock, apc, alarm_to_run,
                 issued, deadline_of, fired, timeouts_, owner, invoked>>

\* The alarms that timeouts_ maps some id to.
MappedAlarms == {timeouts_[t] : t \in TimeoutIds} \ {Absent}

\* ClearAllTimeouts: UnregisterAlarm of every mapped alarm; timeouts_.clear()
ClearAllTimeouts ==
  /\ alarms_' = alarms_ \ MappedAlarms
  /\ num_registered_alarms_' = Cardinality(alarms_ \ MappedAlarms)
  /\ cancelled' = cancelled \cup MappedAlarms
  /\ timeouts_' = [t \in TimeoutIds |-> Absent]
  /\ pending' = {}
  /\ UNCHANGED <<alarm_id_, alarm_timeouts_, next_alarm_time_, clock, apc, alarm_to_run,
                 issued, deadline_of, fired, owner, invoked, tcleared, clear_ret>>

\* LoopAlarms calls the collected callback of an alarm of the Timeouter, which is
\* ProcessTimeout(timeout_id): erased = timeouts_.erase(timeout_id); if (erased)
\* callback_(timeout_id).
ProcessTimeout ==
  /\ apc = "running"
  /\ alarm_to_run # <<>>
  /\ Head(alarm_to_run) \in DOMAIN owner
  /\ LET alarm_id == Head(alarm_to_run)
         timeout_id == owner[alarm_id]
         erased == timeouts_[timeout_id] # Absent
     IN /\ fired' = Append(fired, alarm_id)
        /\ alarm_to_run' = Tail(alarm_to_run)
        /\ timeouts_' = [timeouts_ EXCEPT ![timeout_id] = Absent]
        /\ invoked' = IF erased THEN Append(invoked, alarm_id) ELSE invoked
        /\ pending' = IF erased THEN pending \ {timeout_id} ELSE pending
  /\ UNCHANGED <<alarm_id_, alarms_, alarm_timeouts_, next_alarm_time_, num_registered_alarms_,
                 clock, apc, issued, deadline_of, cancelled, owner, tcleared, clear_ret>>

\* LoopAlarms calls the collected callback of an alarm of another client.
RunOtherAlarmCallback ==
  /\ alarm_to_run # <<>>
  /\ Head(alarm_to_run) \notin DOMAIN owner
  /\ RunAlarmCallback

TimeouterInit ==
  /\ timeouts_ = [t \in TimeoutIds |-> Absent]
  /\ owner = <<>>
  /\ pending = {}
  /\ invoked = <<>>
  /\ tcleared = {}
  /\ clear_ret = [id |-> Absent, ret |-> FALSE, was_pending |-> FALSE]

\* The alarm phase of the loop steps, as the thread inside Loop() runs it.
TimeouterLoopNext ==
  \/ LoopAlarms /\ UNCHANGED notAlarm
  \/ ProcessTimeout /\ UNCHANGED notTimeouter
  \/ RunOtherAlarmCallback /\ UNCHANGED notAlarm
  \/ LoopAlarmsReturn /\ UNCHANGED notAlarm

TimeouterNext ==
  \/ \E id \in TimeoutIds, t \in 0..MaxTimeout : SetTimeout(id, t) /\ UNCHANGED notTimeouter
  \/ \E id \in TimeoutIds : ClearTimeout(id) /\ UNCHANGED notTimeouter
  \/ ClearAllTimeouts /\ UNCHANGED notTimeouter
  \/ \E t \in 0..MaxTimeout : RegisterAlarm(t) /\ UNCHANGED notAlarm
  \/ TimeouterLoopNext
  \/ Tick /\ UNCHANGED notAlarm

\* Timeouts that nothing clears, next to the alarms of another client; every
\* deadline lies within the time that the clock covers.
TimeouterUnclearedNext ==
  \/ \E id \in TimeoutIds, t \in 0..MaxTimeout :
       clock + t <= MaxTime /\ SetTimeout(id, t) /\ UNCHANGED notTimeouter
  \/ \E t \in 0..MaxTimeout : clock + t <= MaxTime /\ RegisterAlarm(t) /\ UNCHANGED notAlarm
  \/ TimeouterLoopNext
  \/ Tick /\ UNCHANGED notAlarm

RegInit ==
  /\ registered_ = {}
  /\ selector_ \in [Sel -> {"null", "this", "other"}]
  /\ fd_ = [s \in Sel |-> kInvalidFdValue]
  /\ loop_ = [fd \in 0..NumSel |-> IF fd = SignalFd THEN Null ELSE Absent]
  /\ tid_ = 0
  /\ lpc = "stopped"
  /\ events = <<>>
  /\ phase = 0
  /\ hcall = NoCall
  /\ hops = 0
  /\ unregd = [s \in Sel |-> FALSE]

RegNext ==
  \/ \E s \in Sel, c \in {"loop", "ext"}, k \in BOOLEAN : Register(s, c, k) /\ UNCHANGED notReg
  \/ \E s \in Sel, c \in {"loop", "ext"} : Unregister(s, c) /\ UNCHANGED notReg
  \/ \E s \in Sel, c \in {"loop", "ext"} : OpenFd(s, c) /\ UNCHANGED notReg
  \/ \E s \in Sel, c \in {"loop", "ext"} : CloseSelectable(s, c) /\ UNCHANGED notReg
  \/ LoopEnter /\ UNCHANGED notReg
  \/ \E b \in EventBatches(MaxEvents) : LoopStep(b) /\ UNCHANGED notReg
  \/ Dispatch /\ UNCHANGED notReg
  \/ \E r \in BOOLEAN : HandlerReturn(r) /\ UNCHANGED notReg
  \/ LoopNextStep /\ UNCHANGED notReg

\* The registry before anything was constructed with this selector.
RegIdle == RegInit /\ selector_ = [s \in Sel |-> "null"]

(***************************************************************************)
(* LockFreeProducerConsumerQueue: a ring of q_size_ slots, tickets taken   *)
(* from head_ and tail_ with fetch_add, and one reservation per client.    *)
(* Every access to an atomic is one step.  The two semaphores only shorten *)
(* the pause between two rounds of a waiting loop (timed_wait returns on   *)
(* a signal or at its timeout), so a wait is the step back to the loop.    *)
(***************************************************************************)
MaxQSize == 2
MaxClients == 2
MaxCalls == 2
\* std::numeric_limits<size_t>::max(): the reservation of a client outside Put or Get.
SizeMax == 2147483647

NextPow2(sz) ==
  LET RECURSIVE Loop(_)
      Loop(ret) == IF ret < sz THEN Loop(2 * ret) ELSE ret
  IN Loop(1)

\* A ring of which only slot 0 is used.
BitAnd_Zero(a, b) == 0
RECURSIVE BitAnd(_, _)
BitAnd(a, b) ==
  IF a = 0 \/ b = 0 THEN 0 ELSE (a % 2) * (b % 2) + 2 * BitAnd(a \div 2, b \div 2)

\* The item that a producer passes to its k-th Put: every call passes its own.
Item(producer_id, k) == producer_id * MaxCalls + k + 1

\* A slot that no Put has written holds what posix_memalign left there: reading
\* it gives any value, one that is no item or one that is an item.
Uninitialized == -1

IdleClient(num) == [pc |-> "idle", ticket |-> 0, pos_min |-> 0, i |-> 0, calls |-> 0,
                    num |-> num, ret |-> Null]

\* LockFreeProducerConsumerQueue(q_size, num_producers, num_consumers).
NewQueue(q_size, num_producers, num_consumers) ==
  /\ num_producers_ = num_producers
  /\ num_consumers_ = num_consumers
  /\ q_size_ = NextPow2(q_size)
  /\ clients_ = [i \in 0..(IF num_consumers > num_producers THEN num_consumers
                                                             ELSE num_producers) - 1 |->
                   [head_ |-> SizeMax, tail_ |-> SizeMax]]
  /\ data_ = [s \in 0..NextPow2(q_size) - 1 |-> Uninitialized]
  /\ head_ = 0 /\ tail_ = 0 /\ last_head_ = 0 /\ last_tail_ = 0
  /\ put_seq = <<>> /\ got_seq = <<>> /\ stored = {} /\ taken = {}

\* A queue that no thread uses.
QueueIdle ==
  /\ NewQueue(1, 1, 1)
  /\ prod = [p \in {0} |-> IdleClient(0)]
  /\ cons = [c \in {0} |-> IdleClient(0)]

\* Loops that never wait, and a Put that always waits.
Full_Never(my_head, pos_min) == FALSE
Full_Always(my_head, pos_min) == TRUE
Empty_Never(my_tail, pos_min) == FALSE
\* The loop conditions of Put and of Get.
Full(my_head, pos_min) == my_head >= pos_min + q_size_
Empty(my_tail, pos_min) == my_tail >= pos_min

\* Put(data, producer_id), the data being the next item of this producer.  A
\* producer works on head_, last_tail_, its reservation and the ring.
Put(producer_id) ==
  LET me == prod[producer_id]
      my_head == me.ticket
      q_mask_ == q_size_ - 1
  IN
  /\ \/ \* line 55: head_.load() ...
        /\ me.pc = "idle" /\ me.calls < me.num
        /\ prod' = [prod EXCEPT ![producer_id] = [me EXCEPT !.pc = "announce", !.ticket = head_]]
        /\ put_seq' = Append(put_seq, Item(producer_id, me.calls))
        /\ UNCHANGED <<head_, last_tail_, clients_, data_, stored>>
     \/ \* ... and the store of it to clients_[producer_id].head_
        /\ me.pc = "announce"
        /\ clients_' = [clients_ EXCEPT ![producer_id].head_ = me.ticket]
        /\ prod' = [prod EXCEPT ![producer_id] = [me EXCEPT !.pc = "ticket", !.ticket = 0]]
        /\ UNCHANGED <<head_, last_tail_, data_, put_seq, stored>>
     \/ \* line 59: my_head = head_.fetch_add(1)
        /\ me.pc = "ticket"
        /\ head_' = head_ + 1
        /\ prod' = [prod EXCEPT ![producer_id] = [me EXCEPT !.pc = "lease", !.ticket = head_]]
        /\ UNCHANGED <<last_tail_, clients_, data_, put_seq, stored>>
     \/ \* line 62
        /\ me.pc = "lease"
        /\ clients_' = [clients_ EXCEPT ![producer_id].head_ = my_head]
        /\ prod' = [prod EXCEPT ![producer_id] = [me EXCEPT !.pc = "check"]]
        /\ UNCHANGED <<head_, last_tail_, data_, put_seq, stored>>
     \/ \* lines 65-66: pos_min = last_tail_.load(), and the first test of the loop
        /\ me.pc = "check"
        /\ prod' = [prod EXCEPT ![producer_id] =
                      [me EXCEPT !.pc = IF Full(my_head, last_tail_) THEN "load" ELSE "store"]]
        /\ UNCHANGED <<head_, last_tail_, clients_, data_, put_seq, stored>>
     \/ \* line 69: pos_min = tail_.load()
        /\ me.pc = "load"
        /\ prod' = [prod EXCEPT ![producer_id] = [me EXCEPT !.pc = "scan", !.pos_min = tail_, !.i = 0]]
        /\ UNCHANGED <<head_, last_tail_, clients_, data_, put_seq, stored>>
     \/ \* lines 70-78: one round of the loop over the consumers
        /\ me.pc = "scan"
        /\ LET tmp_tail == clients_[me.i].tail_
           IN prod' = [prod EXCEPT ![producer_id] =
                         [me EXCEPT !.pos_min = IF tmp_tail < me.pos_min THEN tmp_tail ELSE me.pos_min,
                                    !.i = IF me.i + 1 < num_consumers_ THEN me.i + 1 ELSE 0,
                                    !.pc = IF me.i + 1 < num_consumers_ THEN "scan" ELSE "publish"]]
        /\ UNCHANGED <<head_, last_tail_, clients_, data_, put_seq, stored>>
     \/ \* lines 81-90: last_tail_.store(pos_min), then break, or pause and loop
        /\ me.pc = "publish"
        /\ last_tail_' = me.pos_min
        /\ prod' = [prod EXCEPT ![producer_id] =
                      [me EXCEPT !.pc = IF Full(my_head, me.pos_min) THEN "load" ELSE "store",
                                 !.pos_min = 0]]
        /\ UNCHANGED <<head_, clients_, data_, put_seq, stored>>
     \/ \* line 91: data_[my_head & q_mask_] = std::move(data)
        /\ me.pc = "store"
        /\ data_' = [data_ EXCEPT ![BitAnd(my_head, q_mask_)] = Item(producer_id, me.calls)]
        /\ stored' = stored \union {my_head}
        /\ prod' = [prod EXCEPT ![producer_id] = [me EXCEPT !.pc = "release"]]
        /\ UNCHANGED <<head_, last_tail_, clients_, put_seq>>
     \/ \* lines 93-99: the reservation is cleared and Put returns
        /\ me.pc = "release"
        /\ clients_' = [clients_ EXCEPT ![producer_id].head_ = SizeMax]
        /\ prod' = [prod EXCEPT ![producer_id] =
                      [me EXCEPT !.pc = "idle", !.ticket = 0, !.calls = me.calls + 1]]
        /\ UNCHANGED <<head_, last_tail_, data_, put_seq, stored>>
  /\ UNCHANGED <<q_size_, num_producers_, num_consumers_, tail_, last_head_, cons,
               got_seq, taken>>

\* Get(consumer_id).  A consumer works on tail_, last_head_ and its reservation.
Get(consumer_id) ==
  LET me == cons[consumer_id]
      my_tail == me.ticket
      q_mask_ == q_size_ - 1
  IN
  /\ \/ \* line 106: tail_.load() ...
        /\ me.pc = "idle" /\ me.calls < me.num
        /\ cons' = [cons EXCEPT ![consumer_id] = [me EXCEPT !.pc = "announce", !.ticket = tail_]]
        /\ UNCHANGED <<tail_, last_head_, clients_, got_seq, taken>>
     \/ \* ... and the store of it to clients_[consumer_id].tail_
        /\ me.pc = "announce"
        /\ clients_' = [clients_ EXCEPT ![consumer_id].tail_ = me.ticket]
        /\ cons' = [cons EXCEPT ![consumer_id] = [me EXCEPT !.pc = "ticket", !.ticket = 0]]
        /\ UNCHANGED <<tail_, last_head_, got_seq, taken>>
     \/ \* line 110: my_tail = tail_.fetch_add(1)
        /\ me.pc = "ticket"
        /\ tail_' = tail_ + 1
        /\ cons' = [cons EXCEPT ![consumer_id] = [me EXCEPT !.pc = "lease", !.ticket = tail_]]
        /\ UNCHANGED <<last_head_, clients_, got_seq, taken>>
     \/ \* line 114
        /\ me.pc = "lease"
        /\ clients_' = [clients_ EXCEPT ![consumer_id].tail_ = my_tail]
        /\ cons' = [cons EXCEPT ![consumer_id] = [me EXCEPT !.pc = "check"]]
        /\ UNCHANGED <<tail_, last_head_, got_seq, taken>>
     \/ \* lines 117-118: pos_min = last_head_.load(), and the first test of the loop
        /\ me.pc = "check"
        /\ cons' = [cons EXCEPT ![consumer_id] =
                      [me EXCEPT !.pc = IF Empty(my_tail, last_head_) THEN "load" ELSE "take"]]
        /\ UNCHANGED <<tail_, last_head_, clients_, got_seq, taken>>
     \/ \* line 121: pos_min = head_.load()
        /\ me.pc = "load"
        /\ cons' = [cons EXCEPT ![consumer_id] = [me EXCEPT !.pc = "scan", !.pos_min = head_, !.i = 0]]
        /\ UNCHANGED <<tail_, last_head_, clients_, got_seq, taken>>
     \/ \* lines 122-130: one round of the loop over the producers
        /\ me.pc = "scan"
        /\ LET tmp_head == clients_[me.i].head_
           IN cons' = [cons EXCEPT ![consumer_id] =
                         [me EXCEPT !.pos_min = IF tmp_head < me.pos_min THEN tmp_head ELSE me.pos_min,
                                    !.i = IF me.i + 1 < num_producers_ THEN me.i + 1 ELSE 0,
                                    !.pc = IF me.i + 1 < num_producers_ THEN "scan" ELSE "publish"]]
        /\ UNCHANGED <<tail_, last_head_, clients_, got_seq, taken>>
     \/ \* lines 133-142: last_head_.store(pos_min), then break, or pause and loop
        /\ me.pc = "publish"
        /\ last_head_' = me.pos_min
        /\ cons' = [cons EXCEPT ![consumer_id] =
                      [me EXCEPT !.pc = IF Empty(my_tail, me.pos_min) THEN "load" ELSE "take",
                                 !.pos_min = 0]]
        /\ UNCHANGED <<tail_, clients_, got_seq, taken>>
     \/ \* line 145: ret = std::move(data_[my_tail & q_mask_])
        /\ me.pc = "take"
        /\ taken' = taken \union {my_tail}
        /\ \E ret \in (IF data_[BitAnd(my_tail, q_mask_)] = Uninitialized
                         THEN {Null, Item(0, 0)}
                         ELSE {data_[BitAnd(my_tail, q_mask_)]}) :
             cons' = [cons EXCEPT ![consumer_id] = [me EXCEPT !.pc = "release", !.ret = ret]]
        /\ UNCHANGED <<tail_, last_head_, clients_, got_seq>>
     \/ \* lines 148-154: the reservation is cleared and Get returns ret
        /\ me.pc = "release"
        /\ clients_' = [clients_ EXCEPT ![consumer_id].tail_ = SizeMax]
        /\ got_seq' = Append(got_seq, me.ret)
        /\ cons' = [cons EXCEPT ![consumer_id] =
                      [me EXCEPT !.pc = "idle", !.ticket = 0, !.ret = Null, !.calls = me.calls + 1]]
        /\ UNCHANGED <<tail_, last_head_, taken>>
  /\ UNCHANGED <<q_size_, num_producers_, num_consumers_, head_, last_tail_, data_, prod,
               put_seq, stored>>

QueueNext ==
  \/ \E p \in DOMAIN prod : Put(p) /\ UNCHANGED notQueue
  \/ \E c \in DOMAIN cons : Get(c) /\ UNCHANGED notQueue

(***************************************************************************)
(* The poll backend (PollSelectorLoop): a dense pollfd array, a map from   *)
(* fd to its slot and user data, and the slots that wait for compaction.   *)
(***************************************************************************)
\* PollSelectorLoop::kMaxFds (4096), scaled down.
MaxFds == 3
\* Delete calls in one run of the model.
MaxDeletes == 3

\* The desires a Selectable registers with or changes to.
PollDesires == {{"read", "error"}, {"read", "write", "error"}}

\* std::sort(indices_to_compact_.begin(), indices_to_compact_.end())
RECURSIVE SortIndices(_)
SortIndices(seq) ==
  IF seq = <<>> THEN <<>>
  ELSE LET m == CHOOSE i \in DOMAIN seq : \A j \in DOMAIN seq : seq[i] <= seq[j]
       IN <<seq[m]>> \o SortIndices(SubSeq(seq, 1, m - 1) \o SubSeq(seq, m + 1, Len(seq)))

\* The for loop of Compact (selector_loop.cc:220-234), from its counter i down.
RECURSIVE CompactFrom(_, _, _)
CompactFrom(p, sorted, i) ==
  IF ~(i > 0 /\ p.fds_size_ > 0) THEN p
  ELSE LET index == sorted[i]
           size == p.fds_size_ - 1
           last == p.fds_[size].fd
           shrunk == [p EXCEPT !.fds_size_ = size]
       IN IF size = 0 \/ index = size THEN CompactFrom(shrunk, sorted, i - 1)
          ELSE IF last \notin DOMAIN p.fd_data_
            THEN CompactFrom(shrunk, sorted, i - 1)
          ELSE CompactFrom([shrunk EXCEPT !.fd_data_[last].first = index,
                                          !.fds_[index] = p.fds_[size]],
                           sorted, i - 1)

\* PollSelectorLoop::Compact on the fields p.  Nothing empties
\* indices_to_compact_: the sorted list stays for the next call.
Compact(p) ==
  IF p.indices_to_compact_ = <<>> THEN p
  ELSE LET sorted == SortIndices(p.indices_to_compact_)
           done == CompactFrom(p, sorted, Len(sorted))
       IN [done EXCEPT !.indices_to_compact_ = sorted]

\* The fields of the backend as one record.
PollFields ==
  [fds_ |-> fds_, fds_size_ |-> fds_size_, fd_data_ |-> fd_data_,
   indices_to_compact_ |-> indices_to_compact_]

\* PollSelectorLoop::Add.  A fd is added while no Selectable holds it in the
\* backend: the Selector adds the fd of a Selectable it does not hold yet.
PollAdd(fd, user_data, desires) ==
  /\ fd >= 0 /\ fd \notin DOMAIN fd_data_
  /\ fds_size_ < MaxFds
  /\ fds_' = [fds_ EXCEPT ![fds_size_] = [fd |-> fd, events |-> desires]]
  /\ fd_data_' = (fd :> [first |-> fds_size_, second |-> user_data]) @@ fd_data_
  /\ fds_size_' = fds_size_ + 1
  /\ UNCHANGED indices_to_compact_

\* PollSelectorLoop::Update: the events of the slot and the user data.
PollUpdate(fd, user_data, desires) ==
  /\ fd \in DOMAIN fd_data_
  /\ fds_' = [fds_ EXCEPT ![fd_data_[fd].first].events = desires]
  /\ fd_data_' = [fd_data_ EXCEPT ![fd].second = user_data]
  /\ UNCHANGED <<fds_size_, indices_to_compact_>>

\* PollSelectorLoop::Delete
PollDelete(fd) ==
  /\ fd \in DOMAIN fd_data_
  /\ Len(indices_to_compact_) < MaxDeletes
  /\ indices_to_compact_' = Append(indices_to_compact_, fd_data_[fd].first)
  /\ fds_' = [fds_ EXCEPT ![fd_data_[fd].first].fd = -1]
  /\ fd_data_' = [d \in DOMAIN fd_data_ \ {fd} |-> fd_data_[d]]
  /\ UNCHANGED fds_size_

\* PollSelectorLoop::LoopStep: Compact(), then poll() over the first fds_size_
\* slots, which changes none of these fields.
PollLoopStep ==
  LET p == Compact(PollFields) IN
    /\ fds_' = p.fds_
    /\ fds_size_' = p.fds_size_
    /\ fd_data_' = p.fd_data_
    /\ indices_to_compact_' = p.indices_to_compact_

\* PollSelectorLoop::Create: Initialize() adds the signal fd with no user data.
\* The slots of fds_ that were never used are not read.
PollInit ==
  /\ fds_ = [i \in 0..MaxFds - 1 |->
               IF i = 0 THEN [fd |-> SignalFd, events |-> {"read", "error"}]
               ELSE [fd |-> -1, events |-> {}]]
  /\ fds_size_ = 1
  /\ fd_data_ = (SignalFd :> [first |-> 0, second |-> Null])
  /\ indices_to_compact_ = <<>>

PollNext ==
  \/ \E s \in Sel, d \in PollDesires : PollAdd(FdOf(s), s, d) /\ UNCHANGED notPoll
  \/ \E s \in Sel, d \in PollDesires : PollUpdate(FdOf(s), s, d) /\ UNCHANGED notPoll
  \/ \E s \in Sel : PollDelete(FdOf(s)) /\ UNCHANGED notPoll
  \/ PollLoopStep /\ UNCHANGED notPoll

\* The registry and the dispatch of events.
InitReg ==
  /\ RegInit /\ AlarmInit /\ TaskInit /\ ConnIdle /\ TimeouterInit /\ QueueIdle
  /\ acc = NewAcceptor /\ NewResolver(1, 1) /\ PollInit
SpecReg == InitReg /\ [][RegNext]_vars

\* The alarms; the state after Selector::Create with the default Params.
InitAlarm ==
  /\ RegIdle /\ AlarmInit /\ TaskInit /\ ConnIdle /\ TimeouterInit /\ QueueIdle
  /\ acc = NewAcceptor /\ NewResolver(1, 1) /\ PollInit
SpecAlarm == InitAlarm /\ [][AlarmNext]_vars

\* The deferred callbacks; the Params of the Selector are chosen at construction.
InitTasks ==
  /\ RegIdle
  /\ AlarmInit
  /\ TaskIdle
  /\ callbacks_timeout_per_event \in Timeouts
  /\ ConnIdle
  /\ TimeouterInit
  /\ QueueIdle
  /\ acc = NewAcceptor /\ NewResolver(1, 1) /\ PollInit
SpecTasks == InitTasks /\ [][TaskNext]_vars

\* The deferred callbacks under the default Params, with a thread that calls
\* Loop() and keeps running: the backend wait returns when loop_timeout is over
\* at the latest, and every other step of Loop() is straight-line code.
SpecTasksFair == InitAlarm /\ [][TaskNext]_vars /\ WF_vars(LoopThreadNext)

\* One TcpConnection, with or without a close handler.
InitConn ==
  /\ RegIdle
  /\ AlarmInit
  /\ TaskInit
  /\ \E h \in BOOLEAN : conn = NewConnection(h)
  /\ wev = NoWriteEvent
  /\ TimeouterInit
  /\ QueueIdle
  /\ acc = NewAcceptor /\ NewResolver(1, 1) /\ PollInit
SpecConn == InitConn /\ [][ConnNext]_vars

\* The same, where the backend delivers the events that stay ready: a read event
\* while read events are enabled (after the peer's shutdown the socket stays
\* readable), a write event while write events are enabled, and the linger
\* timeout once it is set.  Errors, hang ups and the calls of the application
\* may or may not happen.
SpecConnFair ==
  InitConn /\ [][ConnNext]_vars
    /\ WF_vars(\E in \in ReadInputs : ConnReadEvent(in) /\ UNCHANGED notConn)
    /\ WF_vars(\E in \in WriteInputs : ConnWriteEvent(in) /\ UNCHANGED notConn)
    /\ WF_vars(\E k \in BOOLEAN : ConnTimeoutEvent(k) /\ UNCHANGED notConn)

\* One Timeouter and another client of the alarms of the same Selector.
SpecTimeouter == InitAlarm /\ [][TimeouterNext]_vars

\* Timeouts that are set and never cleared, with a thread inside Loop(), which
\* runs the alarm phase in every loop step, and with time that passes.
SpecTimeouterFair ==
  InitAlarm /\ [][TimeouterUnclearedNext]_vars
    /\ WF_vars(TimeouterLoopNext) /\ WF_vars(Tick /\ UNCHANGED notAlarm)

\* One TcpAcceptor, before its first Listen or listening.
InitAcceptor ==
  /\ RegIdle /\ AlarmInit /\ TaskInit /\ ConnIdle /\ TimeouterInit /\ QueueIdle
  /\ NewResolver(1, 1) /\ PollInit
  /\ acc \in {NewAcceptor, ListeningAcceptor}
SpecAcceptor == InitAcceptor /\ [][AcceptorNext]_vars

\* One DnsResolver from its construction to its destruction, with the requests
\* of the thread that owns it.
InitDns ==
  /\ RegIdle /\ AlarmInit /\ TaskInit /\ ConnIdle /\ TimeouterInit /\ QueueIdle
  /\ acc = NewAcceptor
  /\ \E num_threads \in 1..MaxDnsThreads, queue_size \in 1..MaxDnsQueue :
       NewResolver(num_threads, queue_size)
  /\ PollInit
SpecDns == InitDns /\ [][DnsNext]_vars

\* The lock-free queue with its producer and consumer threads, as the tests start
\* them: every producer makes the same number of Put calls, every consumer the
\* same number of Get calls.
\* The threads of a test make MaxTotalCalls calls at most, all together.
MaxTotalCalls == 5

QueueThreads(balanced) ==
  \E q_size \in 0..MaxQSize, num_producers \in 1..MaxClients, num_consumers \in 1..MaxClients,
     num_put \in 1..MaxCalls, num_get \in 1..MaxCalls :
    /\ num_producers * num_put + num_consumers * num_get <= MaxTotalCalls
    /\ balanced => num_producers * num_put = num_consumers * num_get
    /\ NewQueue(q_size, num_producers, num_consumers)
    /\ prod = [p \in 0..num_producers - 1 |-> IdleClient(num_put)]
    /\ cons = [c \in 0..num_consumers - 1 |-> IdleClient(num_get)]

InitQueue ==
  /\ RegIdle /\ AlarmInit /\ TaskInit /\ ConnIdle /\ TimeouterInit
  /\ acc = NewAcceptor /\ NewResolver(1, 1) /\ PollInit
  /\ QueueThreads(FALSE)
SpecQueue == InitQueue /\ [][QueueNext]_vars

\* As many Put calls as Get calls, and every thread keeps being scheduled: a
\* thread that can take a step takes one eventually (a waiting thread goes
\* round its loop after every pause).
InitQueueFair ==
  /\ RegIdle /\ AlarmInit /\ TaskInit /\ ConnIdle /\ TimeouterInit
  /\ acc = NewAcceptor /\ NewResolver(1, 1) /\ PollInit
  /\ QueueThreads(TRUE)
SpecQueueFair ==
  InitQueueFair /\ [][QueueNext]_vars
  /\ \A i \in 0..MaxClients - 1 :
       /\ WF_vars(i \in DOMAIN prod /\ Put(i) /\ UNCHANGED notQueue)
       /\ WF_vars(i \in DOMAIN cons /\ Get(i) /\ UNCHANGED notQueue)

\* The poll backend of one Selector, from its creation.
InitPoll ==
  /\ RegIdle /\ AlarmInit /\ TaskInit /\ ConnIdle /\ TimeouterInit /\ QueueIdle
  /\ acc = NewAcceptor /\ NewResolver(1, 1) /\ PollInit
SpecPoll == InitPoll /\ [][PollNext]_vars

(***************************************************************************)
(* C1: whenever no Register or Unregister call is in progress, a           *)
(* Selectable is in the registered set if and only if its back-pointer is  *)
(* this selector and its fd is present in the backend table.               *)
(***************************************************************************)
InBackend(s) == fd_[s] # kInvalidFdValue /\ loop_[fd_[s]] # Absent

C1_RegisteredIffOwnedAndInBackend ==
  \A s \in Sel : (s \in registered_) <=> (selector_[s] = "this" /\ InBackend(s))

(***************************************************************************)
(* C2: after Unregister(s) has returned, the loop invokes none of s's      *)
(* read, write or error handlers unless s was registered anew: no handler  *)
(* call starts for a Selectable whose last Selector call was Unregister.   *)
(***************************************************************************)
C2_NoHandlerAfterUnregister ==
  lpc = "in_handler" => ~hcall.after_unregister

(***************************************************************************)
(* C3: every alarm id RegisterAlarm returns differs from every id it       *)
(* returned before, whatever was cancelled or has fired in between.        *)
(***************************************************************************)
C3_AlarmIdsUnique ==
  \A i, j \in 1..Len(issued) : i # j => issued[i] # issued[j]

\* Ids were issued, one was cancelled, one has fired, and another id was issued after.
C3_Witness ==
  /\ Len(issued) >= 3
  /\ \E i \in 1..(Len(issued) - 1) : issued[i] \in cancelled
  /\ \E i \in 1..(Len(issued) - 1), k \in 1..Len(fired) : issued[i] = fired[k]

InSeq(x, seq) == \E i \in 1..Len(seq) : seq[i] = x

(***************************************************************************)
(* C8: in the alarm phase of a loop step, every alarm that is still        *)
(* registered and whose deadline is at or before now is collected for      *)
(* firing in that step.                                                    *)
(***************************************************************************)
C8_DueAlarmsFireInStep ==
  [][(apc = "idle" /\ apc' = "running") =>
       \A id \in alarms_ : deadline_of[id] <= clock => InSeq(id, alarm_to_run')]_vars

(***************************************************************************)
(* C9: once UnregisterAlarm(id) has returned, the callback of alarm id is  *)
(* never started afterwards.                                               *)
(***************************************************************************)
C9_NoCallbackAfterUnregisterAlarm ==
  [][Len(fired') > Len(fired) => fired'[Len(fired')] \notin cancelled]_vars

(***************************************************************************)
(* C10: two alarms with equal deadlines have their callbacks invoked in    *)
(* the order in which they were registered: the later one is not invoked   *)
(* while the earlier one, not cancelled, has not been invoked.             *)
(***************************************************************************)
C10_EqualDeadlinesFireInOrder ==
  \A a, b \in DOMAIN deadline_of :
    (a < b /\ deadline_of[a] = deadline_of[b] /\ a \notin cancelled /\ InSeq(b, fired))
      => \E i, j \in 1..Len(fired) : i < j /\ fired[i] = a /\ fired[j] = b

(***************************************************************************)
(* C6: callbacks posted by one thread through RunInSelectLoop are run in   *)
(* the order in which that thread posted them, also when a batch was cut   *)
(* short and put back at the head of the queue.                            *)
(***************************************************************************)
C6_PostedOrderPreserved ==
  \A i, j \in 1..Len(executed) :
    (i < j /\ executed[i].th = executed[j].th) => executed[i].n < executed[j].n

\* Two callbacks of one thread were put back at the head of the queue and have
\* run since, and so has a callback that another thread posted while a cut
\* batch was out of the queue.
C6_Witness ==
  \E i, j, k \in 1..Len(executed) :
    /\ i < j /\ j < k
    /\ executed[i] \in put_back /\ executed[j] \in put_back
    /\ executed[i].th = executed[j].th
    /\ executed[k].th # executed[i].th /\ executed[k].while_cut

(***************************************************************************)
(* C7: when Loop() returns the deferred queue is empty: no posted callback *)
(* is left in it unexecuted.                                               *)
(***************************************************************************)
C7_QueueEmptyAtLoopReturn ==
  [][(tpc = "closing" /\ tpc' = "returned") => to_run_' = <<>>]_vars

(***************************************************************************)
(* C4: a TcpConnection whose state is DISCONNECTED has read_closed and     *)
(* write_closed set and no valid fd, from its construction on.             *)
(***************************************************************************)
C4_DisconnectedIsClosed ==
  conn.state = "DISCONNECTED" =>
    (conn.read_closed /\ conn.write_closed /\ conn.fd = kInvalidFdValue)

(***************************************************************************)
(* C5 as stated: in FLUSHING a write event issues shutdown(SHUT_WR) if and *)
(* only if it leaves outbuf empty, and once shutdown(SHUT_WR) has been     *)
(* issued write_closed is true.                                            *)
(***************************************************************************)
C5_ShutdownIffOutbufEmpty ==
  /\ wev.flushing => (wev.issued <=> wev.left = 0)
  /\ conn.shut_wr => conn.write_closed

(***************************************************************************)
(* C5 amended: in FLUSHING a write event issues shutdown(SHUT_WR) if and   *)
(* only if its write succeeds, outbuf is empty after it and the write      *)
(* events are disabled successfully; never while outbuf holds bytes; once  *)
(* shutdown(SHUT_WR) has been issued write_closed is true.                 *)
(***************************************************************************)
C5_ShutdownIffDrainedAndDisabled ==
  /\ wev.flushing => (wev.issued <=> (wev.write_ok /\ wev.drained /\ wev.disabled))
  /\ wev.issued => (wev.flushing /\ wev.drained)
  /\ conn.shut_wr => conn.write_closed

\* A write event in FLUSHING drained outbuf and issued shutdown(SHUT_WR), and the
\* connection is still FLUSHING, with write_closed set.
C5_Witness ==
  /\ wev.flushing /\ wev.issued /\ wev.drained
  /\ conn.state = "FLUSHING" /\ conn.shut_wr /\ conn.write_closed

\* C11: after MakeLoopExit has been called, from any thread, before or while Loop()
\* runs, Loop() returns (stated here for a return with any status).
C11_LoopReturnsAfterMakeLoopExit == exit_pending ~> ~exit_pending

\* C12: the recorded thread id is non-zero exactly while some thread is inside
\* Loop(); it is zero again once Loop() has returned, with OK or with an error.
C12_TidSetExactlyInsideLoop ==
  (tid_ # 0) <=> (tpc \in {"top", "events", "callbacks", "run", "closing"})

\* C13: for a TcpConnection that is in the registered set, in any state reachable
\* through Wrap, Connect and their failure paths, one call of its Close() removes
\* it from the set (so that the loop of CleanAndCloseAll terminates).
C13_CloseRemovesFromRegistered ==
  (conn.in_set /\ ~conn.crashed) =>
    \A k \in BOOLEAN : ~InternalClose(conn, TRUE, k).in_set

\* C14: Connect with an unresolved host on a Disconnected connection moves it to
\* Resolving, and a DNS result that is a success with an address, delivered when
\* no close was requested meanwhile, moves the connection to Connecting.
C14_ResolveSuccessMovesToConnecting ==
  /\ (conn.state = "DISCONNECTED" /\ conn.fd = kInvalidFdValue /\ conn.selector # "null"
        /\ ~conn.crashed)
       => Connect(conn, FALSE, TRUE).state = "RESOLVING"
  /\ (conn.state = "RESOLVING" /\ conn.dns_pending /\ conn.close_on_resolve = "unset"
        /\ ~conn.crashed)
       => \A k \in BOOLEAN : HandleDnsResult(conn, TRUE, TRUE, k).state = "CONNECTING"

\* C15: a connection in Resolving is Disconnected once its DNS result has been
\* delivered, whenever the lookup returned an error or a close was requested
\* during the resolve.
C15_ResolveFailureDisconnects ==
  (conn.state = "RESOLVING" /\ conn.dns_pending /\ ~conn.crashed) =>
    \A info_ok, has_ip, k \in BOOLEAN :
      (~info_ok \/ conn.close_on_resolve # "unset")
        => HandleDnsResult(conn, info_ok, has_ip, k).state = "DISCONNECTED"

\* C16: ForceClose executed on the reactor thread for a connection in Connecting,
\* Connected or Flushing leaves it unregistered from the reactor, with the fd
\* closed and invalid, the buffers empty, no pending timeout and state
\* Disconnected, and invokes the close handler exactly once with CLOSE_READ_WRITE.
C16_ForceCloseClosesAndNotifiesOnce ==
  (conn.state \in {"CONNECTING", "CONNECTED", "FLUSHING"} /\ ~conn.crashed) =>
    \A k \in BOOLEAN :
      LET r == ForceClose(conn, k) IN
        /\ ~r.crashed
        /\ ~r.in_set /\ ~r.in_backend
        /\ r.fd = kInvalidFdValue
        /\ r.outbuf = 0
        /\ ~r.linger
        /\ r.state = "DISCONNECTED"
        /\ r.close_rw = conn.close_rw + 1

\* C17: once the linger timeout set by the half-close is due, and nothing has
\* cleared it, it fires: the owner's callback (HandleTimeoutEvent, which
\* force-closes the connection) is invoked for kShutdownTimeoutId.
C17_LingerTimeoutFires ==
  (/\ kShutdownTimeoutId \in pending
   /\ timeouts_[kShutdownTimeoutId] # Absent
   /\ deadline_of[timeouts_[kShutdownTimeoutId]] <= clock)
    ~> (kShutdownTimeoutId \notin pending)

\* C19: if ClearTimeout(id) has returned before the owner's callback for id has
\* started, the callback is not invoked for the cleared timeout, also when its
\* alarm was already collected for firing in the current loop step.
C19_NoCallbackAfterClearTimeout ==
  [][invoked' # invoked => Head(alarm_to_run) \notin tcleared]_vars

\* C20: ClearTimeout(id) returns true exactly when a timeout for id was pending at
\* the call: set by SetTimeout and neither fired nor cleared since.
C20_ClearTimeoutReturnsPending == clear_ret.ret = clear_ret.was_pending

\* C18: a connection that received a remote hang up while input was pending, and
\* entered Flushing for it, closes once the input has been read: it reaches
\* Disconnected (stated here up to a failed CHECK, which ends the process).
C18_RemoteHangUpWithInputCloses ==
  (conn.state = "FLUSHING" /\ conn.rdhup_input /\ ~conn.crashed)
    ~> (conn.state = "DISCONNECTED" \/ conn.crashed)

\* C21: SetTimeout(id, d) on an id with a pending timeout replaces it: the owner's
\* callback for id is invoked only by the alarm that the id is mapped to now,
\* never by a replaced one, and not before the deadline of that alarm.
C21_SetTimeoutReplaces ==
  [][invoked' # invoked =>
       LET alarm_id == Head(alarm_to_run)
           current == timeouts_[owner[alarm_id]]
       IN alarm_id = current /\ deadline_of[current] <= clock]_vars

(***************************************************************************)
(* The lock-free queue.                                                    *)
(***************************************************************************)
Count(seq, x) == Cardinality({k \in DOMAIN seq : seq[k] = x})
AllReturned ==
  /\ \A p \in DOMAIN prod : prod[p].pc = "idle" /\ prod[p].calls = prod[p].num
  /\ \A c \in DOMAIN cons : cons[c].pc = "idle" /\ cons[c].calls = cons[c].num
Wrapped == \E t \in stored : t >= q_size_

\* C22: for any numbers of producers and consumers, Get never returns an item
\* more often than it was passed to Put, and once all the calls have returned,
\* as many Get calls as Put calls, the items returned by Get are the items passed
\* to Put, each as often: none is lost, duplicated or invented.
C22_GetReturnsWhatWasPut ==
  /\ \A k \in DOMAIN got_seq : Count(got_seq, got_seq[k]) <= Count(put_seq, got_seq[k])
  /\ AllReturned /\ Len(got_seq) = Len(put_seq) =>
       \A k \in DOMAIN put_seq : Count(got_seq, put_seq[k]) = Count(put_seq, put_seq[k])

C22_Witness ==
  /\ AllReturned /\ Len(got_seq) = Len(put_seq) /\ Wrapped
  /\ num_producers_ = 2 /\ num_consumers_ = 2

\* C23: with one producer and one consumer, the items that Get has returned are,
\* in order, the first items passed to Put, whatever the capacity: all of them
\* once every call has returned.
C23_SingleProducerConsumerFifo ==
  num_producers_ = 1 /\ num_consumers_ = 1 =>
    /\ Len(got_seq) <= Len(put_seq)
    /\ \A k \in DOMAIN got_seq : got_seq[k] = put_seq[k]

C23_Witness ==
  /\ num_producers_ = 1 /\ num_consumers_ = 1 /\ AllReturned /\ Wrapped
  /\ Len(got_seq) = 2 /\ got_seq = put_seq

\* C29: a producer with ticket t writes slot t mod size only after the consumer
\* with ticket t - size has read that slot.
C29_NoOverwriteBeforeRead ==
  \A t \in stored : t >= q_size_ => (t - q_size_) \in taken

C29_Witness ==
  /\ Wrapped /\ num_producers_ = 2
  /\ \E p \in DOMAIN prod : prod[p].pc = "release" /\ prod[p].ticket >= q_size_

\* C30: with as many Put calls as Get calls and fair scheduling, every Put and
\* every Get call returns.
C30_EveryCallReturns == <>AllReturned

C30_Witness ==
  /\ num_producers_ = 2 /\ num_consumers_ = 2 /\ q_size_ = 1
  /\ \E p \in DOMAIN prod : prod[p].pc = "load"
  /\ \E c \in DOMAIN cons : cons[c].pc = "load"

(***************************************************************************)
(* The acceptor.                                                           *)
(***************************************************************************)
\* C24: when Listen returns the error of one of its steps, the acceptor is
\* Disconnected, the socket that the call created is closed, fd_ is invalid and
\* the acceptor is neither in registered_ nor in the backend.
C24_ListenErrorLeavesDisconnected ==
  acc.ret = "error" =>
    /\ acc.state = "DISCONNECTED" /\ acc.fd = kInvalidFdValue /\ acc.sock # "open"
    /\ ~acc.in_set /\ ~acc.in_backend

C28_DestructorDrainsAndJoins ==
  dns.pc = "returned" =>
    /\ accepted \subseteq answered
    /\ \A t \in DOMAIN threads_ : threads_[t].pc = "exited"

C28_Witness ==
  /\ dns.pc = "returned" /\ Len(threads_) = 2 /\ options_.queue_size = 1
  /\ Cardinality(accepted) >= 2 /\ dns.issued > Cardinality(accepted)


(***************************************************************************)
(* C31: at the start of a loop step the wait timeout is 0 if the deferred  *)
(* queue is not empty or the earliest deadline of the pending alarms is    *)
(* not after now; otherwise it is the smaller of default_loop_timeout and  *)
(* the earliest pending deadline minus now, which is default_loop_timeout  *)
(* when no alarm is pending.  The loop thread is at the start of a step    *)
(* whenever it is not inside LoopAlarms.                                   *)
(***************************************************************************)
PendingDeadlines == {deadline_of[id] : id \in alarms_}

C31_LoopTimeout ==
  apc = "idle" =>
    LoopTimeout =
      IF to_run_ # <<>> \/ \E d \in PendingDeadlines : d <= clock THEN 0
      ELSE IF \E d \in PendingDeadlines : d - clock < default_loop_timeout
             THEN (CHOOSE d \in PendingDeadlines : \A e \in PendingDeadlines : d <= e) - clock
             ELSE default_loop_timeout


(***************************************************************************)
(* C32: once callbacks_timeout_per_event has elapsed since RunCallbacks    *)
(* took its batch, no further callback of the batch is started in that     *)
(* step: a callback starts only while now is before the batch's deadline.  *)
(***************************************************************************)
C32_NoCallbackAfterBudget ==
  [][executed' # executed => clock < cb_deadline]_vars


(***************************************************************************)
(* C33: in the poll backend the map and the pollfd array agree after any   *)
(* sequence of Add, Update, Delete and LoopStep: every fd of the map is in *)
(* the slot at its recorded index, among the first fds_size_ slots; and    *)
(* when a step has compacted, every one of the first fds_size_ slots holds *)
(* a fd of the map.                                                        *)
(***************************************************************************)
MapAgrees(p) ==
  \A fd \in DOMAIN p.fd_data_ :
    p.fd_data_[fd].first < p.fds_size_ /\ p.fds_[p.fd_data_[fd].first].fd = fd

DenseAfterCompact(p) ==
  \A i \in 0..p.fds_size_ - 1 : p.fds_[i].fd \in DOMAIN p.fd_data_

C33_PollMapAndArrayAgree ==
  /\ MapAgrees(PollFields)
  /\ MapAgrees(Compact(PollFields)) /\ DenseAfterCompact(Compact(PollFields))


(***************************************************************************)
(* C34: no operation uses the Selectable's selector back-pointer while it  *)
(* is null: on a closed connection (unregistered, back-pointer cleared)    *)
(* ForceClose, FlushAndClose, Close and Connect do not dereference it, and *)
(* neither does the FlushAndClose that closing a connection without a      *)
(* close handler issues.  In these calls a crash is the null dereference.  *)
(***************************************************************************)
C34_NoNullSelectorUse ==
  /\ (~conn.crashed /\ conn.state = "DISCONNECTED" /\ conn.fd = kInvalidFdValue
        /\ conn.selector = "null") =>
       \A k, r, v \in BOOLEAN :
         /\ ~ForceClose(conn, k).crashed
         /\ ~FlushAndClose(conn, k).crashed
         /\ ~InternalClose(conn, TRUE, k).crashed
         /\ ~Connect(conn, r, v).crashed
  /\ (~conn.crashed /\ conn.state \in {"CONNECTING", "CONNECTED", "FLUSHING"}
        /\ conn.selector = "this" /\ ~conn.has_close_handler) =>
       \A k \in BOOLEAN : ~InternalClose(conn, TRUE, k).crashed

(***************************************************************************)
(* C35: the check of HandleDnsResult that the connection is in RESOLVING   *)
(* cannot fail: while a DNS lookup is outstanding the connection is in     *)
(* RESOLVING, and every Connect, ForceClose, FlushAndClose or Close made   *)
(* in the select thread leaves it there, so that the result finds it in    *)
(* RESOLVING whatever was called before (a call that aborts the process    *)
(* delivers no result).                                                    *)
(***************************************************************************)
LookupOutstanding == conn.dns_pending /\ conn.state = "RESOLVING" /\ ~conn.crashed

StillResolving(c) == c.crashed \/ (c.state = "RESOLVING" /\ c.dns_pending)

C36_ConnectErrorLeavesDisconnected ==
  (~conn.crashed /\ conn.selector # "null") =>
    \A r, v \in BOOLEAN :
      ConnectStatus(conn, r, v) = "error" =>
        LET c == Connect(conn, r, v) IN
          c.state = "DISCONNECTED" /\ c.fd = kInvalidFdValue /\ ~c.in_set

(***************************************************************************)
(* C37: the check of CloseCommunication cannot fail: whenever another call *)
(* can look at the connection, an invalid fd goes with state DISCONNECTED, *)
(* also while the connection is resolving.                                 *)
(***************************************************************************)
C37_InvalidFdIsDisconnected ==
  ~conn.crashed => (conn.fd = kInvalidFdValue => conn.state = "DISCONNECTED")


(***************************************************************************)
(* C38: a worker thread of the DnsResolver accesses its request queue only *)
(* after the constructor has created that queue: no thread indexes         *)
(* resolves_ at a place that is not there yet, and a thread that is past   *)
(* its first access has its queue.                                         *)
(***************************************************************************)
C38_WorkerQueueConstructed ==
  /\ ~dns.crashed
  /\ \A t \in DOMAIN threads_ : threads_[t].pc # "started" => t <= Len(resolves_)


(***************************************************************************)
(* C39: whenever to_run_mutex_ is not held, have_to_run_ is true if the    *)
(* deferred queue is not empty, for any interleaving of posting threads    *)
(* with the loop thread that takes a batch and puts the unrun callbacks    *)
(* back.  The queue and the flag change only inside the critical sections  *)
(* of RunInSelectLoop, PopCallbacks and PrependCallbacks, each of which is *)
(* one step: in every state between steps the mutex is free.               *)
(***************************************************************************)
C39_FlagSetWhileQueued == to_run_ # <<>> => have_to_run_

C39_Witness ==
  /\ put_back # {}
  /\ tpc = "run" /\ cb_to_run # <<>>
  /\ \E i \in DOMAIN to_run_ : to_run_[i].th = "ext" /\ to_run_[i].while_cut
  /\ have_to_run_


(***************************************************************************)
(* C40: every alarm id in the alarm map has exactly one entry in the heap  *)
(* of deadlines: the alarm phase removes from the heap only the entry of   *)
(* the alarm it fires or discards.                                         *)
(***************************************************************************)
HeapEntriesOf(id) == {i \in DOMAIN alarm_timeouts_ : alarm_timeouts_[i][2] = id}

C40_OneHeapEntryPerAlarm ==
  \A id \in alarms_ : Cardinality(HeapEntriesOf(id)) = 1

====
